---- MODULE Spec2Model ----
(***************************************************************************)
(* familiar-ai-gui: the orchestration shell (src-tauri/src/lib.rs), the    *)
(* ReAct loop (src-tauri/src/agent.rs) and the desire state                *)
(* (src-tauri/src/desires.rs) as one state machine.                        *)
(*                                                                         *)
(* Representation.  An Agent is a value that is moved between the shared   *)
(* slot (AppState.agent) and the local `agent` of a running                *)
(* run_agent_turn, as in the Rust code; None is the record with id 0.      *)
(* f32 intensities are fixed-point thousandths (1.0 = Unit).  The mpsc     *)
(* channel of a turn is a sequence bounded by ChanCap; the source creates  *)
(* it with capacity 64 and runs up to 50 rounds, the model keeps the same  *)
(* code paths with the smaller ChanCap and MAX_ITERATIONS below so that a  *)
(* full channel and an exhausted cap are reached.                          *)
(*                                                                         *)
(* The permission registry (lib.rs respond_permission) and the backend     *)
(* adapters (src-tauri/src/backend: create_backend, the three              *)
(* stream_turn_dyn bodies, make_user_message, convert_history) have their  *)
(* own variables and their own specifications, SpecPerm and SpecBackend.   *)
(* A response body is a sequence of lines; serde_json values and JSON      *)
(* texts are modelled over a three-character alphabet.                     *)
(*                                                                         *)
(* The functions that are looked at on their own have their own            *)
(* specifications as well: SpecResults (the adapters' make_tool_results),  *)
(* SpecDesire (desires.rs: decay, boost, satisfy, strongest and the reset  *)
(* of clear_history) and SpecCheck (permissions.rs check_permission).      *)
(* SpecWait is one turn whose tools ask for approval, together with the    *)
(* commands that answer, cancel or let time pass.                          *)
(* SpecLive is the turn machine under weak fairness of the steps of a      *)
(* turn and of its relay task, for what a turn eventually comes to.        *)
(***************************************************************************)
EXTENDS Integers, Sequences, FiniteSets, TLC

\* ---------------------------------------------------------------- bounds
NumFg == 2            \* concurrent send_message invocations
MaxDispatch == 2      \* dispatches (foreground or heartbeat) in one run
MaxAgents == 2        \* Agents ever constructed (startup + save_config)
MAX_ITERATIONS == 2   \* rounds of one turn; agent.rs:18 has 50
ChanCap == 2          \* capacity of a turn's channel; lib.rs:131 has 64
MaxChunks == 1        \* text chunks streamed by one backend call
MaxPerms == 3         \* permission requests ever registered
MaxLines == 3         \* lines of one response body

Unit == 1000          \* the f32 value 1.0

hb == 0
Fg == 1..NumFg
Tasks == {hb} \cup Fg
TurnIds == 1..MaxDispatch

Min(a, b) == IF a < b THEN a ELSE b
Max(a, b) == IF a > b THEN a ELSE b

\* ---------------------------------------------------------- desires.rs
HOURS == 3600
\* RATE_x = 1.0 / (h * HOURS) per second; DIV_x is 1 / RATE_x in tenths of a
\* second, so that 0.167 h is a whole number
DIV_OBSERVE_ROOM == (167 * HOURS) \div 100
DIV_LOOK_OUTSIDE == 10 * HOURS
DIV_BROWSE_CURIOSITY == 20 * HOURS
DIV_MISS_COMPANION == 30 * HOURS
THRESHOLD == 600        \* 0.6
SATISFY_AMOUNT == 400   \* self.desires.satisfy(desire, 0.4)
BOOST_SEE == 150        \* boost("observe_room", 0.15)
BOOST_LOOK == 100       \* boost("look_outside", 0.1)

DesireNames == <<"observe_room", "look_outside", "browse_curiosity", "miss_companion">>

DesireDefault ==
    [observe_room |-> 400, look_outside |-> 200,
     browse_curiosity |-> 100, miss_companion |-> 100]

\* mutant (C24): time wears an intensity down
GrowDown(v, elapsed, div) == Max(0, v - (elapsed * 10 * Unit) \div div)

Grow(v, elapsed, div) == Min(Unit, v + (elapsed * 10 * Unit) \div div)

decay(d, elapsed) ==
    [observe_room |-> Grow(d.observe_room, elapsed, DIV_OBSERVE_ROOM),
     look_outside |-> Grow(d.look_outside, elapsed, DIV_LOOK_OUTSIDE),
     browse_curiosity |-> Grow(d.browse_curiosity, elapsed, DIV_BROWSE_CURIOSITY),
     miss_companion |-> Grow(d.miss_companion, elapsed, DIV_MISS_COMPANION)]

\* mutant (C40): max_by as a fold that keeps the first of equal maxima
RECURSIVE StrongestFromFirstWins(_, _, _)
StrongestFromFirstWins(d, i, best) ==
    IF i > Len(DesireNames) THEN best
    ELSE LET v == d[DesireNames[i]]
         IN  IF v >= THRESHOLD /\ (best = 0 \/ v > d[DesireNames[best]])
             THEN StrongestFromFirstWins(d, i + 1, i)
             ELSE StrongestFromFirstWins(d, i + 1, best)

\* mutant (C22): the filter is v > THRESHOLD
RECURSIVE StrongestFromStrict(_, _, _)
StrongestFromStrict(d, i, best) ==
    IF i > Len(DesireNames) THEN best
    ELSE LET v == d[DesireNames[i]]
         IN  IF v > THRESHOLD /\ (best = 0 \/ v >= d[DesireNames[best]])
             THEN StrongestFromStrict(d, i + 1, i)
             ELSE StrongestFromStrict(d, i + 1, best)

\* filter(v >= THRESHOLD).max_by(partial_cmp): Iterator::max_by keeps the
\* last of several equal maxima.  The result is an index into DesireNames,
\* 0 for None.
RECURSIVE StrongestFrom(_, _, _)
StrongestFrom(d, i, best) ==
    IF i > Len(DesireNames) THEN best
    ELSE LET v == d[DesireNames[i]]
         IN  IF v >= THRESHOLD /\ (best = 0 \/ v >= d[DesireNames[best]])
             THEN StrongestFrom(d, i + 1, i)
             ELSE StrongestFrom(d, i + 1, best)

strongest(d) ==
    LET i == StrongestFrom(d, 1, 0)
    IN  IF i = 0 THEN "" ELSE DesireNames[i]

\* mutant (C25): a name that is none of the four falls to the first arm
SatisfyDefaultArm(d, desire, amount) ==
    IF desire \in DOMAIN d
    THEN [d EXCEPT ![desire] = Max(0, @ - amount)]
    ELSE [d EXCEPT !.observe_room = Max(0, @ - amount)]

satisfy(d, desire, amount) ==
    IF desire \in DOMAIN d
    THEN [d EXCEPT ![desire] = Max(0, @ - amount)]
    ELSE d

\* mutant (C23): the sum is not clamped
BoostUnclamped(d, desire, amount) ==
    IF desire \in DOMAIN d
    THEN [d EXCEPT ![desire] = @ + amount]
    ELSE d

boost(d, desire, amount) ==
    IF desire \in DOMAIN d
    THEN [d EXCEPT ![desire] = Min(Unit, @ + amount)]
    ELSE d

\* ------------------------------------------------------------ agent.rs
None == [id |-> 0, history |-> << >>, desires |-> DesireDefault, world_model |-> FALSE]

AgentNew(id) ==
    [id |-> id, history |-> << >>, desires |-> DesireDefault, world_model |-> FALSE]

has_strong_desire(a) == strongest(a.desires) # ""

clear_history(a) ==
    [a EXCEPT !.history = << >>, !.desires = DesireDefault, !.world_model = FALSE]

\* AgentEvent values; Action carries the tool name
Ev(type, name) == [type |-> type, name |-> name]
Terminal == {"done", "cancelled", "error"}

\* ------------------------------------------------------------- inputs
ElapsedSecs == {0, 600}
\* tool-call lists a backend result can carry: all of them in SpecTurn, where
\* one foreground caller and the heartbeat dispatch; one list in Spec, where
\* every task dispatches and two turns can overlap
CallLists == { << >>, <<"see">>, <<"look", "say">> }
ShellCallLists == { <<"see">> }
StopReasons == {"EndTurn", "ToolUse"}

VARIABLES
    agent_slot,    \* AppState.agent: Option<Agent>
    cancel_flag,   \* AppState.cancel_flag
    nagents,       \* Agents constructed so far
    ndispatch,     \* dispatches started so far
    pc,            \* position of each task (send_message calls, heartbeat)
    agent,         \* run_agent_turn's local `agent`, None when not held
    turn_of,       \* the dispatch a task is working on
    should_tick,   \* spawn_heartbeat's local
    turns,         \* per dispatch: channel, relay and Agent::run locals
    pending_perms, \* AppState.pending_perms: ids with a oneshot sender
    perm_rx,       \* per request id: what its oneshot receiver holds
    perm_sends,    \* per request id: tx.send calls made for it
    platform,      \* config.platform
    backend,       \* the adapter create_backend returned, "none" before
    user_text,     \* the text of the user message of the request
    wire,          \* the messages of the request body
    body_lines,    \* the lines of the response body
    turn_result,   \* what stream_turn_dyn returned
    tool_results,  \* the &[ToolResult] given to make_tool_results
    result_msgs,   \* the Vec<Value> make_tool_results returned
    desires,       \* a DesireState on its own
    desire_op,     \* the last operation on it: arguments, state before, return
    desire_nops,   \* operations applied to it so far
    perm_query,    \* the arguments of the last check_permission call
    perm_verdict,  \* the PermCheck it returned
    perm_of,       \* per task: the request id its turn waits on, 0 for none
    clear_calls    \* clear_history commands that have returned, modulo 2

shellvars == <<agent_slot, cancel_flag, nagents, ndispatch, pc, agent, turn_of,
               should_tick, turns>>
permvars == <<pending_perms, perm_rx, perm_sends>>
backendvars == <<platform, backend, user_text, wire, body_lines, turn_result>>
fnvars == <<tool_results, result_msgs, desires, desire_op, desire_nops,
            perm_query, perm_verdict>>
waitvars == <<perm_of>>
cmdvars == <<clear_calls>>
vars == <<shellvars, permvars, backendvars, fnvars, waitvars, cmdvars>>

\* the outcome of one tools.execute: the ToolResult pushed, and whether
\* execute returned Err
NoExec == [call_id |-> 0, text |-> "", failed |-> FALSE]

TurnInit ==
    [chan |-> << >>,          \* mpsc::channel buffer
     rx_open |-> FALSE,       \* the relay task still listens
     tx_open |-> FALSE,       \* Agent::run still holds the sender
     started |-> FALSE,       \* the dispatch took the Agent
     iter |-> 0,              \* _iteration
     calls |-> << >>,         \* result.tool_calls of the round
     results |-> << >>,       \* tool_results of the round
     active_desire |-> "",    \* active_desire, "" for None
     stop |-> "none",         \* last value returned by stream_turn_dyn
     handed |-> << >>,        \* the results the last finished round gave the adapter
     history_snapshot |-> << >>,  \* what the current backend call was given
     chunks |-> 0,            \* text chunks streamed by the current call
     backend_calls |-> 0,     \* stream_turn_dyn calls made by the turn
     emitted |-> << >>,       \* Error/Done sends made by Agent::run, in order
     last_action |-> 0,       \* id of the call whose Action was sent last
     last_exec |-> NoExec,    \* what the last tools.execute came to
     relayed_term |-> 0,      \* terminal events given to app.emit
     relayed_last |-> ""]     \* type of the last event given to app.emit

\* the registry is created empty (lib.rs run)
PermIds == 1..MaxPerms

PermInit ==
    /\ pending_perms = {}
    /\ perm_rx = [i \in PermIds |-> "none"]
    /\ perm_sends = [i \in PermIds |-> 0]

\* no request has been built and no response has arrived
NoResult == [stop_reason |-> "none", text |-> << >>, tool_calls |-> << >>]

BackendInit ==
    /\ platform = ""
    /\ backend = "none"
    /\ user_text = "none"
    /\ wire = << >>
    /\ body_lines = << >>
    /\ turn_result = NoResult

\* no DesireState operation, make_tool_results call or check_permission call
\* has been made on its own
NoOp == [op |-> "none", name |-> "", amount |-> 0, before |-> DesireDefault,
        ret |-> [name |-> "", level |-> 0]]
NoMsgs == [returned |-> FALSE, msgs |-> << >>]
NoQuery == [mode |-> "none", rules |-> << >>, tool |-> "", arg |-> ""]

FnInit ==
    /\ tool_results = << >>
    /\ result_msgs = NoMsgs
    /\ desires = DesireDefault
    /\ desire_op = NoOp
    /\ desire_nops = 0
    /\ perm_query = NoQuery
    /\ perm_verdict = "none"

\* no turn waits for a permission
WaitInit == perm_of = [t \in Tasks |-> 0]

Init ==
    /\ PermInit
    /\ BackendInit
    /\ FnInit
    /\ WaitInit
    /\ clear_calls = 0
    /\ \E configured \in BOOLEAN :
          /\ agent_slot = IF configured THEN AgentNew(1) ELSE None
          /\ nagents = IF configured THEN 1 ELSE 0
    /\ cancel_flag = FALSE
    /\ ndispatch = 0
    /\ pc = [t \in Tasks |-> "idle"]
    /\ agent = [t \in Tasks |-> None]
    /\ turn_of = [t \in Tasks |-> 0]
    /\ should_tick = FALSE
    /\ turns = [k \in TurnIds |-> TurnInit]

\* a dispatch whose run_agent_turn has returned and whose relay task has ended:
\* the channel, the relay and the locals of Agent::run are gone
TurnOver == [TurnInit EXCEPT !.started = TRUE]

InTurnPcs == {"begin", "round", "stream", "tool_action", "tool_exec",
              "send_done", "await_relay"}
RunPcs == {"begin", "round", "stream", "tool_action", "tool_exec", "send_done"}

\* --------------------------------------------------------------- lib.rs
save_config ==
    /\ nagents < MaxAgents
    /\ nagents' = nagents + 1
    /\ agent_slot' = AgentNew(nagents + 1)
    /\ UNCHANGED <<cancel_flag, ndispatch, pc, agent, turn_of, should_tick, turns>>
    /\ UNCHANGED <<permvars, backendvars, fnvars, waitvars, cmdvars>>

cancel_message ==
    /\ cancel_flag' = TRUE
    /\ UNCHANGED <<agent_slot, nagents, ndispatch, pc, agent, turn_of, should_tick, turns>>
    /\ UNCHANGED <<permvars, backendvars, fnvars, waitvars, cmdvars>>

\* if let Some(agent) = lock.as_mut() { agent.clear_history(); }  Ok(())
ClearHistoryCmd ==
    /\ agent_slot' = IF agent_slot.id # 0 THEN clear_history(agent_slot) ELSE agent_slot
    /\ clear_calls' = 1 - clear_calls
    /\ UNCHANGED <<cancel_flag, nagents, ndispatch, pc, agent, turn_of, should_tick, turns>>
    /\ UNCHANGED <<permvars, backendvars, fnvars, waitvars>>

send_message(t) ==
    /\ pc[t] = "idle"
    /\ ndispatch < MaxDispatch
    /\ cancel_flag' = FALSE
    /\ ndispatch' = ndispatch + 1
    /\ turn_of' = [turn_of EXCEPT ![t] = ndispatch + 1]
    /\ pc' = [pc EXCEPT ![t] = "take"]
    /\ UNCHANGED <<agent_slot, nagents, agent, should_tick, turns>>
    /\ UNCHANGED <<permvars, backendvars, fnvars, waitvars, cmdvars>>

\* mutant (C10): the tick looks only at the slot, not at the desires
HeartbeatTickAnyDesire ==
    /\ pc[hb] = "idle"
    /\ ndispatch < MaxDispatch
    /\ should_tick' = (agent_slot.id # 0)
    /\ pc' = [pc EXCEPT ![hb] = "hb_if"]
    /\ UNCHANGED <<agent_slot, cancel_flag, nagents, ndispatch, agent, turn_of, turns>>
    /\ UNCHANGED <<permvars, backendvars, fnvars, waitvars, cmdvars>>

\* mutant (C38): the tick lets the desires grow before it looks at them
HeartbeatTickDecays ==
    /\ pc[hb] = "idle"
    /\ ndispatch < MaxDispatch
    /\ \E elapsed \in ElapsedSecs :
         LET a == IF agent_slot.id # 0
                  THEN [agent_slot EXCEPT !.desires = decay(@, elapsed)]
                  ELSE agent_slot
         IN  /\ agent_slot' = a
             /\ should_tick' = (a.id # 0 /\ has_strong_desire(a))
    /\ pc' = [pc EXCEPT ![hb] = "hb_if"]
    /\ UNCHANGED <<cancel_flag, nagents, ndispatch, agent, turn_of, turns>>
    /\ UNCHANGED <<permvars, backendvars, fnvars, waitvars, cmdvars>>

HeartbeatTick ==
    /\ pc[hb] = "idle"
    /\ ndispatch < MaxDispatch
    /\ should_tick' = (agent_slot.id # 0 /\ has_strong_desire(agent_slot))
    /\ pc' = [pc EXCEPT ![hb] = "hb_if"]
    /\ UNCHANGED <<agent_slot, cancel_flag, nagents, ndispatch, agent, turn_of, turns>>
    /\ UNCHANGED <<permvars, backendvars, fnvars, waitvars, cmdvars>>

HeartbeatSkip ==
    /\ pc[hb] = "hb_if"
    /\ ~should_tick
    /\ pc' = [pc EXCEPT ![hb] = "idle"]
    /\ UNCHANGED <<agent_slot, cancel_flag, nagents, ndispatch, agent, turn_of,
                   should_tick, turns>>
    /\ UNCHANGED <<permvars, backendvars, fnvars, waitvars, cmdvars>>

\* mutant (C35): the heartbeat dispatches without resetting the cancel flag
HeartbeatFireKeepsFlag ==
    /\ pc[hb] = "hb_if"
    /\ should_tick
    /\ ndispatch < MaxDispatch
    /\ ndispatch' = ndispatch + 1
    /\ turn_of' = [turn_of EXCEPT ![hb] = ndispatch + 1]
    /\ pc' = [pc EXCEPT ![hb] = "take"]
    /\ should_tick' = FALSE
    /\ UNCHANGED <<agent_slot, cancel_flag, nagents, agent, turns>>
    /\ UNCHANGED <<permvars, backendvars, fnvars, waitvars, cmdvars>>

HeartbeatFire ==
    /\ pc[hb] = "hb_if"
    /\ should_tick
    /\ ndispatch < MaxDispatch
    /\ cancel_flag' = FALSE
    /\ ndispatch' = ndispatch + 1
    /\ turn_of' = [turn_of EXCEPT ![hb] = ndispatch + 1]
    /\ pc' = [pc EXCEPT ![hb] = "take"]
    /\ should_tick' = FALSE
    /\ UNCHANGED <<agent_slot, nagents, agent, turns>>
    /\ UNCHANGED <<permvars, backendvars, fnvars, waitvars, cmdvars>>

\* --------------------------------------------------- the event channel
\* tx.send(ev).await: waits for room, fails at once when the receiver is gone
CanSend(k) == ~turns[k].rx_open \/ Len(turns[k].chan) < ChanCap
SendTo(k, ev) == IF turns[k].rx_open THEN Append(turns[k].chan, ev) ELSE turns[k].chan
\* tx.try_send(ev): never waits, the event is lost when there is no room
TrySendTo(k, ev) ==
    IF turns[k].rx_open /\ Len(turns[k].chan) < ChanCap
    THEN Append(turns[k].chan, ev) ELSE turns[k].chan

\* ------------------------------------------------ lib.rs run_agent_turn
TakeAgent(t) ==
    /\ pc[t] = "take"
    /\ LET k == turn_of[t] IN
       IF agent_slot.id = 0
       THEN \* lock.take().ok_or("Agent not initialized")?
            /\ pc' = [pc EXCEPT ![t] = "idle"]
            /\ turn_of' = [turn_of EXCEPT ![t] = 0]
            /\ UNCHANGED <<agent_slot, agent, turns>>
       ELSE /\ agent' = [agent EXCEPT ![t] = agent_slot]
            /\ agent_slot' = None
            /\ turns' = [turns EXCEPT ![k] =
                          [TurnInit EXCEPT !.rx_open = TRUE, !.tx_open = TRUE,
                                           !.started = TRUE]]
            /\ pc' = [pc EXCEPT ![t] = "begin"]
            /\ UNCHANGED turn_of
    /\ UNCHANGED <<cancel_flag, nagents, ndispatch, should_tick>>
    /\ UNCHANGED <<permvars, backendvars, fnvars, waitvars, cmdvars>>

\* the relay task: while let Some(event) = rx.recv().await
RelayRecv(k) ==
    /\ turns[k].rx_open
    /\ turns[k].chan # << >>
    /\ LET ev == Head(turns[k].chan)
           term == ev.type \in Terminal
       IN  turns' = [turns EXCEPT
                ![k].chan = IF term THEN << >> ELSE Tail(@),
                ![k].rx_open = ~term,
                ![k].relayed_term = IF term THEN @ + 1 ELSE @,
                ![k].relayed_last = ev.type]
    /\ UNCHANGED <<agent_slot, cancel_flag, nagents, ndispatch, pc, agent, turn_of,
                   should_tick>>
    /\ UNCHANGED <<permvars, backendvars, fnvars, waitvars, cmdvars>>

\* rx.recv() returns None: every sender is gone and the buffer is empty
RelayClosed(k) ==
    /\ turns[k].rx_open
    /\ turns[k].chan = << >>
    /\ ~turns[k].tx_open
    /\ turns' = [turns EXCEPT ![k].rx_open = FALSE]
    /\ UNCHANGED <<agent_slot, cancel_flag, nagents, ndispatch, pc, agent, turn_of,
                   should_tick>>
    /\ UNCHANGED <<permvars, backendvars, fnvars, waitvars, cmdvars>>

\* relay.await.ok(); *agent_arc.lock().unwrap() = Some(agent); Ok(())
PutBack(t) ==
    /\ pc[t] = "await_relay"
    /\ ~turns[turn_of[t]].rx_open
    /\ agent_slot' = agent[t]
    /\ agent' = [agent EXCEPT ![t] = None]
    /\ pc' = [pc EXCEPT ![t] = "idle"]
    /\ turn_of' = [turn_of EXCEPT ![t] = 0]
    /\ turns' = [turns EXCEPT ![turn_of[t]] = TurnOver]
    /\ UNCHANGED <<cancel_flag, nagents, ndispatch, should_tick>>
    /\ UNCHANGED <<permvars, backendvars, fnvars, waitvars, cmdvars>>

\* ------------------------------------------------------ agent.rs Agent::run
\* lib.rs hands run the cancel flag and the permission registry as well;
\* Agent::run in agent.rs takes user_input and tx only and reads neither, and
\* AgentEvent has no Cancelled variant, so no step below looks at cancel_flag
\* and no Cancelled event is ever sent.
RunBegin(t) ==
    /\ pc[t] = "begin"
    /\ \E elapsed \in ElapsedSecs :
         LET d == decay(agent[t].desires, elapsed) IN
         /\ agent' = [agent EXCEPT ![t] =
                        [@ EXCEPT !.desires = d,
                                  !.history = Append(@, "user"),
                                  !.world_model = TRUE]]
         /\ turns' = [turns EXCEPT ![turn_of[t]].active_desire = strongest(d)]
    /\ pc' = [pc EXCEPT ![t] = "round"]
    /\ UNCHANGED <<agent_slot, cancel_flag, nagents, ndispatch, turn_of, should_tick>>
    /\ UNCHANGED <<permvars, backendvars, fnvars, waitvars, cmdvars>>

\* mutant (C6): the loop has no upper bound (loop { .. })
RoundCallUncapped(t) ==
    /\ pc[t] = "round"
    /\ turns' = [turns EXCEPT ![turn_of[t]].backend_calls = @ + 1,
                              ![turn_of[t]].history_snapshot = agent[t].history,
                              ![turn_of[t]].last_exec = NoExec,
                              ![turn_of[t]].handed = << >>]
    /\ pc' = [pc EXCEPT ![t] = "stream"]
    /\ UNCHANGED <<agent_slot, cancel_flag, nagents, ndispatch, agent, turn_of,
                   should_tick>>
    /\ UNCHANGED <<permvars, backendvars, fnvars, waitvars, cmdvars>>

\* mutant (C32): the backend is given the newest message only
RoundCallLastMessage(t) ==
    /\ pc[t] = "round"
    /\ turns[turn_of[t]].iter < MAX_ITERATIONS
    /\ turns' = [turns EXCEPT ![turn_of[t]].backend_calls = @ + 1,
                              ![turn_of[t]].history_snapshot =
                                  SubSeq(agent[t].history, Len(agent[t].history),
                                         Len(agent[t].history)),
                              ![turn_of[t]].last_exec = NoExec,
                              ![turn_of[t]].handed = << >>]
    /\ pc' = [pc EXCEPT ![t] = "stream"]
    /\ UNCHANGED <<agent_slot, cancel_flag, nagents, ndispatch, agent, turn_of,
                   should_tick>>
    /\ UNCHANGED <<permvars, backendvars, fnvars, waitvars, cmdvars>>

\* for _iteration in 0..MAX_ITERATIONS: let history_snapshot =
\* self.history.clone(); the call of stream_turn_dyn
RoundCall(t) ==
    /\ pc[t] = "round"
    /\ turns[turn_of[t]].iter < MAX_ITERATIONS
    /\ turns' = [turns EXCEPT ![turn_of[t]].backend_calls = @ + 1,
                              ![turn_of[t]].history_snapshot = agent[t].history,
                              ![turn_of[t]].last_exec = NoExec,
                              ![turn_of[t]].handed = << >>]
    /\ pc' = [pc EXCEPT ![t] = "stream"]
    /\ UNCHANGED <<agent_slot, cancel_flag, nagents, ndispatch, agent, turn_of,
                   should_tick>>
    /\ UNCHANGED <<permvars, backendvars, fnvars, waitvars, cmdvars>>

\* the on_text callback: tx_clone.try_send(AgentEvent::Text { chunk })
StreamText(t) ==
    /\ pc[t] = "stream"
    /\ turns[turn_of[t]].chunks < MaxChunks
    /\ turns' = [turns EXCEPT ![turn_of[t]].chunks = @ + 1,
                              ![turn_of[t]].chan = TrySendTo(turn_of[t], Ev("text", ""))]
    /\ UNCHANGED <<agent_slot, cancel_flag, nagents, ndispatch, pc, agent, turn_of,
                   should_tick>>
    /\ UNCHANGED <<permvars, backendvars, fnvars, waitvars, cmdvars>>

\* stream_turn_dyn(...).await? fails (connection failure, non-2xx status):
\* Agent::run returns the error, run_agent_turn returns it with `?`; the
\* local agent and the sender are dropped.  The adapters fail only before
\* they deliver the first chunk.
StreamFail(t) ==
    /\ pc[t] = "stream"
    /\ turns[turn_of[t]].chunks = 0
    /\ turns' = [turns EXCEPT ![turn_of[t]].stop = "Err",
                              ![turn_of[t]].history_snapshot = << >>,
                              ![turn_of[t]].tx_open = FALSE,
                              ![turn_of[t]].iter = 0,
                              ![turn_of[t]].backend_calls = 0,
                              ![turn_of[t]].active_desire = ""]
    /\ agent' = [agent EXCEPT ![t] = None]
    /\ pc' = [pc EXCEPT ![t] = "idle"]
    /\ turn_of' = [turn_of EXCEPT ![t] = 0]
    /\ UNCHANGED <<agent_slot, cancel_flag, nagents, ndispatch, should_tick>>
    /\ UNCHANGED <<permvars, backendvars, fnvars, waitvars, cmdvars>>

\* ids the provider gives to the calls of one result
MkCalls(iter, names) ==
    [i \in 1..Len(names) |-> [id |-> iter * 10 + i, name |-> names[i]]]

\* backend-specific encoding of the round's results (one record per result)
make_tool_results(results) ==
    [i \in 1..Len(results) |-> "tool"]

\* the round is over: history.extend(make_tool_results(&tool_results))
EndRound(a, results) ==
    [a EXCEPT !.history = @ \o make_tool_results(results)]

\* mutant (C27): the active desire is satisfied after every backend answer
StreamReturnSatisfyEachRound(t, lists) ==
    /\ pc[t] = "stream"
    /\ LET k == turn_of[t] IN
       \E stop \in StopReasons, names \in lists :
         LET a0 == [agent[t] EXCEPT !.history = Append(@, "assistant")]
             a1 == IF turns[k].active_desire # ""
                   THEN [a0 EXCEPT !.desires =
                             satisfy(@, turns[k].active_desire, SATISFY_AMOUNT)]
                   ELSE a0
             calls == MkCalls(turns[k].iter, names)
         IN
         IF stop = "EndTurn"
         THEN /\ agent' = [agent EXCEPT ![t] = a1]
              /\ turns' = [turns EXCEPT ![k].stop = stop, ![k].chunks = 0,
                                        ![k].history_snapshot = << >>,
                                        ![k].calls = calls]
              /\ pc' = [pc EXCEPT ![t] = "send_done"]
         ELSE IF calls = << >>
         THEN /\ agent' = [agent EXCEPT ![t] = EndRound(a1, << >>)]
              /\ turns' = [turns EXCEPT ![k].stop = stop, ![k].chunks = 0,
                                        ![k].history_snapshot = << >>,
                                        ![k].iter = @ + 1]
              /\ pc' = [pc EXCEPT ![t] = "round"]
         ELSE /\ agent' = [agent EXCEPT ![t] = a1]
              /\ turns' = [turns EXCEPT ![k].stop = stop, ![k].chunks = 0,
                                        ![k].history_snapshot = << >>,
                                        ![k].calls = calls]
              /\ pc' = [pc EXCEPT ![t] = "tool_action"]
    /\ UNCHANGED <<agent_slot, cancel_flag, nagents, ndispatch, turn_of, should_tick>>
    /\ UNCHANGED <<permvars, backendvars, fnvars, waitvars, cmdvars>>

\* mutant (C33): a result that lists tool calls has them run whatever its
\* stop reason
StreamReturnCallsFirst(t, lists) ==
    /\ pc[t] = "stream"
    /\ LET k == turn_of[t] IN
       \E stop \in StopReasons, names \in lists :
         LET a1 == [agent[t] EXCEPT !.history = Append(@, "assistant")]
             calls == MkCalls(turns[k].iter, names)
         IN
         IF calls # << >>
         THEN /\ agent' = [agent EXCEPT ![t] = a1]
              /\ turns' = [turns EXCEPT ![k].stop = stop, ![k].chunks = 0,
                                        ![k].history_snapshot = << >>,
                                        ![k].calls = calls]
              /\ pc' = [pc EXCEPT ![t] = "tool_action"]
         ELSE IF stop = "EndTurn"
         THEN /\ agent' = [agent EXCEPT ![t] =
                    IF turns[k].active_desire # ""
                    THEN [a1 EXCEPT !.desires =
                              satisfy(@, turns[k].active_desire, SATISFY_AMOUNT)]
                    ELSE a1]
              /\ turns' = [turns EXCEPT ![k].stop = stop, ![k].chunks = 0,
                                        ![k].history_snapshot = << >>,
                                        ![k].calls = calls]
              /\ pc' = [pc EXCEPT ![t] = "send_done"]
         ELSE /\ agent' = [agent EXCEPT ![t] = EndRound(a1, << >>)]
              /\ turns' = [turns EXCEPT ![k].stop = stop, ![k].chunks = 0,
                                        ![k].history_snapshot = << >>,
                                        ![k].iter = @ + 1]
              /\ pc' = [pc EXCEPT ![t] = "round"]
    /\ UNCHANGED <<agent_slot, cancel_flag, nagents, ndispatch, turn_of, should_tick>>
    /\ UNCHANGED <<permvars, backendvars, fnvars, waitvars, cmdvars>>

\* stream_turn_dyn returns Ok((result, raw_assistant))
StreamReturn(t, lists) ==
    /\ pc[t] = "stream"
    /\ LET k == turn_of[t] IN
       \E stop \in StopReasons, names \in lists :
         LET a1 == [agent[t] EXCEPT !.history = Append(@, "assistant")]
             calls == MkCalls(turns[k].iter, names)
         IN
         IF stop = "EndTurn"
         THEN /\ agent' = [agent EXCEPT ![t] =
                    IF turns[k].active_desire # ""
                    THEN [a1 EXCEPT !.desires =
                              satisfy(@, turns[k].active_desire, SATISFY_AMOUNT)]
                    ELSE a1]
              /\ turns' = [turns EXCEPT ![k].stop = stop, ![k].chunks = 0,
                                        ![k].history_snapshot = << >>,
                                        ![k].calls = calls]
              /\ pc' = [pc EXCEPT ![t] = "send_done"]
         ELSE IF calls = << >>
         THEN /\ agent' = [agent EXCEPT ![t] = EndRound(a1, << >>)]
              /\ turns' = [turns EXCEPT ![k].stop = stop, ![k].chunks = 0,
                                        ![k].history_snapshot = << >>,
                                        ![k].iter = @ + 1]
              /\ pc' = [pc EXCEPT ![t] = "round"]
         ELSE /\ agent' = [agent EXCEPT ![t] = a1]
              /\ turns' = [turns EXCEPT ![k].stop = stop, ![k].chunks = 0,
                                        ![k].history_snapshot = << >>,
                                        ![k].calls = calls]
              /\ pc' = [pc EXCEPT ![t] = "tool_action"]
    /\ UNCHANGED <<agent_slot, cancel_flag, nagents, ndispatch, turn_of, should_tick>>
    /\ UNCHANGED <<permvars, backendvars, fnvars, waitvars, cmdvars>>

\* the tool call the inner loop is at
CurCall(k) == turns[k].calls[Len(turns[k].results) + 1]

\* mutant (C28): every tool but "look" counts as a look around the room
BoostForAnyTool(d, name) ==
    IF name = "look" THEN boost(d, "look_outside", BOOST_LOOK)
    ELSE boost(d, "observe_room", BOOST_SEE)

\* if tc.name == "see" { boost("observe_room", 0.15) } else if tc.name == "look"
\* { boost("look_outside", 0.1) }
BoostFor(d, name) ==
    IF name = "see" THEN boost(d, "observe_room", BOOST_SEE)
    ELSE IF name = "look" THEN boost(d, "look_outside", BOOST_LOOK)
    ELSE d

\* mutant (C9): the tool is executed without its Action event being sent first
ToolActionSilent(t) ==
    /\ pc[t] = "tool_action"
    /\ agent' = [agent EXCEPT ![t].desires = BoostFor(@, CurCall(turn_of[t]).name)]
    /\ turns' = [turns EXCEPT ![turn_of[t]].last_exec = NoExec]
    /\ pc' = [pc EXCEPT ![t] = "tool_exec"]
    /\ UNCHANGED <<agent_slot, cancel_flag, nagents, ndispatch, turn_of, should_tick>>
    /\ UNCHANGED <<permvars, backendvars, fnvars, waitvars, cmdvars>>

\* tx.send(AgentEvent::Action { .. }).await, then the desire boost
ToolAction(t) ==
    /\ pc[t] = "tool_action"
    /\ LET k == turn_of[t]
           tc == CurCall(k)
       IN
       /\ CanSend(k)
       /\ turns' = [turns EXCEPT ![k].chan = SendTo(k, Ev("action", tc.name)),
                                 ![k].last_action = tc.id,
                                 ![k].last_exec = NoExec]
       /\ agent' = [agent EXCEPT ![t].desires = BoostFor(@, tc.name)]
    /\ pc' = [pc EXCEPT ![t] = "tool_exec"]
    /\ UNCHANGED <<agent_slot, cancel_flag, nagents, ndispatch, turn_of, should_tick>>
    /\ UNCHANGED <<permvars, backendvars, fnvars, waitvars, cmdvars>>

\* tools.execute(..).await.unwrap_or_else(|e| (format!("Tool error: {e}"), None))
ToolOutcome(tc, ok) ==
    [call_id |-> tc.id, text |-> IF ok THEN "ok" ELSE "Tool error"]

\* mutant (C8): tools.execute(..).await? -- a failing tool ends the round
\* with the results collected so far
ToolExecPropagates(t) ==
    /\ pc[t] = "tool_exec"
    /\ LET k == turn_of[t] IN
       \E ok \in BOOLEAN :
         LET out == ToolOutcome(CurCall(k), ok)
             res == Append(turns[k].results, out)
             last == ~ok \/ Len(res) = Len(turns[k].calls)
         IN
         /\ turns' = [turns EXCEPT ![k].results = IF last THEN << >> ELSE res,
                                   ![k].handed = IF last THEN res ELSE @,
                                   ![k].last_exec = [call_id |-> out.call_id,
                                                     text |-> out.text,
                                                     failed |-> ~ok],
                                   ![k].calls = IF last THEN << >> ELSE @,
                                   ![k].last_action = IF last THEN 0 ELSE @,
                                   ![k].iter = IF last THEN @ + 1 ELSE @]
         /\ agent' = [agent EXCEPT ![t] = IF last THEN EndRound(@, res) ELSE @]
         /\ pc' = [pc EXCEPT ![t] = IF last THEN "round" ELSE "tool_action"]
    /\ UNCHANGED <<agent_slot, cancel_flag, nagents, ndispatch, turn_of, should_tick>>
    /\ UNCHANGED <<permvars, backendvars, fnvars, waitvars, cmdvars>>

\* mutant (C34): each new result is put in front of the ones collected so far
ToolExecNewestFirst(t) ==
    /\ pc[t] = "tool_exec"
    /\ LET k == turn_of[t] IN
       \E ok \in BOOLEAN :
         LET out == ToolOutcome(CurCall(k), ok)
             res == <<out>> \o turns[k].results
             last == Len(res) = Len(turns[k].calls)
         IN
         /\ turns' = [turns EXCEPT ![k].results = IF last THEN << >> ELSE res,
                                   ![k].handed = IF last THEN res ELSE @,
                                   ![k].last_exec = [call_id |-> out.call_id,
                                                     text |-> out.text,
                                                     failed |-> ~ok],
                                   ![k].calls = IF last THEN << >> ELSE @,
                                   ![k].last_action = IF last THEN 0 ELSE @,
                                   ![k].iter = IF last THEN @ + 1 ELSE @]
         /\ agent' = [agent EXCEPT ![t] = IF last THEN EndRound(@, res) ELSE @]
         /\ pc' = [pc EXCEPT ![t] = IF last THEN "round" ELSE "tool_action"]
    /\ UNCHANGED <<agent_slot, cancel_flag, nagents, ndispatch, turn_of, should_tick>>
    /\ UNCHANGED <<permvars, backendvars, fnvars, waitvars, cmdvars>>

ToolExec(t) ==
    /\ pc[t] = "tool_exec"
    /\ LET k == turn_of[t] IN
       \E ok \in BOOLEAN :
         LET out == ToolOutcome(CurCall(k), ok)
             res == Append(turns[k].results, out)
             last == Len(res) = Len(turns[k].calls)
         IN
         /\ turns' = [turns EXCEPT ![k].results = IF last THEN << >> ELSE res,
                                   ![k].handed = IF last THEN res ELSE @,
                                   ![k].last_exec = [call_id |-> out.call_id,
                                                     text |-> out.text,
                                                     failed |-> ~ok],
                                   ![k].calls = IF last THEN << >> ELSE @,
                                   ![k].last_action = IF last THEN 0 ELSE @,
                                   ![k].iter = IF last THEN @ + 1 ELSE @]
         /\ agent' = [agent EXCEPT ![t] = IF last THEN EndRound(@, res) ELSE @]
         /\ pc' = [pc EXCEPT ![t] = IF last THEN "round" ELSE "tool_action"]
    /\ UNCHANGED <<agent_slot, cancel_flag, nagents, ndispatch, turn_of, should_tick>>
    /\ UNCHANGED <<permvars, backendvars, fnvars, waitvars, cmdvars>>

\* mutant (C7): the exhausted cap is not reported, the turn just sends Done
SendMaxStepsSilent(t) ==
    /\ pc[t] = "round"
    /\ turns[turn_of[t]].iter >= MAX_ITERATIONS
    /\ turns' = [turns EXCEPT ![turn_of[t]].last_exec = NoExec,
                              ![turn_of[t]].handed = << >>]
    /\ pc' = [pc EXCEPT ![t] = "send_done"]
    /\ UNCHANGED <<agent_slot, cancel_flag, nagents, ndispatch, agent, turn_of,
                   should_tick>>
    /\ UNCHANGED <<permvars, backendvars, fnvars, waitvars, cmdvars>>

\* Max iterations reached: tx.send(Error { "Reached maximum steps." }).await
SendMaxSteps(t) ==
    /\ pc[t] = "round"
    /\ LET k == turn_of[t] IN
       /\ turns[k].iter >= MAX_ITERATIONS
       /\ CanSend(k)
       /\ turns' = [turns EXCEPT ![k].chan = SendTo(k, Ev("error", "")),
                                 ![k].emitted = Append(@, "error"),
                                 ![k].last_exec = NoExec,
                                 ![k].handed = << >>]
    /\ pc' = [pc EXCEPT ![t] = "send_done"]
    /\ UNCHANGED <<agent_slot, cancel_flag, nagents, ndispatch, agent, turn_of,
                   should_tick>>
    /\ UNCHANGED <<permvars, backendvars, fnvars, waitvars, cmdvars>>

\* mutant (C12): Done goes out with try_send, as the text chunks do
SendDoneTry(t) ==
    /\ pc[t] = "send_done"
    /\ LET k == turn_of[t] IN
       /\ turns' = [turns EXCEPT ![k].chan = TrySendTo(k, Ev("done", "")),
                                 ![k].emitted = Append(@, "done"),
                                 ![k].tx_open = FALSE,
                                 ![k].iter = 0, ![k].calls = << >>,
                                 ![k].active_desire = ""]
    /\ pc' = [pc EXCEPT ![t] = "await_relay"]
    /\ UNCHANGED <<agent_slot, cancel_flag, nagents, ndispatch, agent, turn_of,
                   should_tick>>
    /\ UNCHANGED <<permvars, backendvars, fnvars, waitvars, cmdvars>>

\* tx.send(AgentEvent::Done).await; Ok(()) -- the sender is dropped
SendDone(t) ==
    /\ pc[t] = "send_done"
    /\ LET k == turn_of[t] IN
       /\ CanSend(k)
       /\ turns' = [turns EXCEPT ![k].chan = SendTo(k, Ev("done", "")),
                                 ![k].emitted = Append(@, "done"),
                                 ![k].tx_open = FALSE,
                                 ![k].iter = 0, ![k].calls = << >>,
                                 ![k].active_desire = ""]
    /\ pc' = [pc EXCEPT ![t] = "await_relay"]
    /\ UNCHANGED <<agent_slot, cancel_flag, nagents, ndispatch, agent, turn_of,
                   should_tick>>
    /\ UNCHANGED <<permvars, backendvars, fnvars, waitvars, cmdvars>>

\* one step of the relay task or of a task's run_agent_turn / Agent::run,
\* given the tool-call lists the backend can answer with
TurnStep(lists) ==
    \/ \E t \in Tasks : TakeAgent(t)
    \/ \E t \in Tasks : RunBegin(t)
    \/ \E t \in Tasks : RoundCall(t)
    \/ \E t \in Tasks : StreamText(t)
    \/ \E t \in Tasks : StreamFail(t)
    \/ \E t \in Tasks : StreamReturn(t, lists)
    \/ \E t \in Tasks : ToolAction(t)
    \/ \E t \in Tasks : ToolExec(t)
    \/ \E t \in Tasks : SendMaxSteps(t)
    \/ \E t \in Tasks : SendDone(t)
    \/ \E t \in Tasks : PutBack(t)
    \/ \E k \in TurnIds : RelayRecv(k)
    \/ \E k \in TurnIds : RelayClosed(k)

Command ==
    \/ save_config
    \/ cancel_message
    \/ ClearHistoryCmd
    \/ HeartbeatTick
    \/ HeartbeatSkip
    \/ HeartbeatFire

\* every foreground caller and the heartbeat
Next ==
    \/ Command
    \/ \E t \in Fg : send_message(t)
    \/ TurnStep(ShellCallLists)

Spec == Init /\ [][Next]_vars

\* one foreground caller and the heartbeat, every backend answer
NextTurn ==
    \/ Command
    \/ send_message(1)
    \/ TurnStep(CallLists)

SpecTurn == Init /\ [][NextTurn]_vars

\* ------------------------------------------- the permission registry
\* A tool that needs approval registers a oneshot sender under a generated
\* (fresh) id and waits on the receiver.
RegisterPermission(id) ==
    /\ perm_rx[id] = "none"
    /\ pending_perms' = pending_perms \cup {id}
    /\ perm_rx' = [perm_rx EXCEPT ![id] = "waiting"]
    /\ UNCHANGED <<perm_sends, shellvars, backendvars, fnvars, waitvars, cmdvars>>

\* mutant (C13): the entry is looked up but left in the map
RespondPermissionKeepsEntry(id, allowed) ==
    /\ IF id \in pending_perms
       THEN /\ perm_sends' = [perm_sends EXCEPT ![id] = @ + 1]
            /\ perm_rx' = [perm_rx EXCEPT ![id] =
                              IF @ = "waiting"
                              THEN (IF allowed THEN "allowed" ELSE "denied")
                              ELSE @]
            /\ UNCHANGED pending_perms
       ELSE UNCHANGED permvars
    /\ UNCHANGED <<shellvars, backendvars, fnvars, waitvars, cmdvars>>

\* if let Some(tx) = lock.remove(&id) { let _ = tx.send(allowed); }
respond_permission(id, allowed) ==
    /\ IF id \in pending_perms
       THEN /\ pending_perms' = pending_perms \ {id}
            /\ perm_sends' = [perm_sends EXCEPT ![id] = @ + 1]
            /\ perm_rx' = [perm_rx EXCEPT ![id] =
                              IF @ = "waiting"
                              THEN (IF allowed THEN "allowed" ELSE "denied")
                              ELSE @]
       ELSE UNCHANGED permvars
    /\ UNCHANGED <<shellvars, backendvars, fnvars, waitvars, cmdvars>>

\* the registry on its own: requests are registered and answered
NextPerm ==
    \/ \E id \in PermIds : RegisterPermission(id)
    \/ \E id \in PermIds, allowed \in BOOLEAN : respond_permission(id, allowed)

SpecPerm == Init /\ [][NextPerm]_vars

\* ======================================================= backend adapters
\* ---------------------------------------------------- serde_json values
\* A JSON text is a sequence of the characters "[", "]" and "1"; a Value is
\* a record: null, a number (n digits 1), a string (its characters in s), an
\* array (its elements in items) or the empty object.
JNull == [t |-> "null", n |-> 0, s |-> << >>, items |-> << >>]
JNum(n) == [t |-> "num", n |-> n, s |-> << >>, items |-> << >>]
JStr(s) == [t |-> "str", n |-> 0, s |-> s, items |-> << >>]
JArr(items) == [t |-> "arr", n |-> 0, s |-> << >>, items |-> items]
JObj == [t |-> "obj", n |-> 0, s |-> << >>, items |-> << >>]
JErr == [t |-> "err", n |-> 0, s |-> << >>, items |-> << >>]

\* serde_json::from_str::<Value>(text); JErr stands for Err(_)
RECURSIVE from_str(_)
from_str(text) ==
    IF text = << >> THEN JErr
    ELSE IF \A i \in 1..Len(text) : text[i] = "1" THEN JNum(Len(text))
    ELSE IF Len(text) >= 2 /\ text[1] = "[" /\ text[Len(text)] = "]"
    THEN LET inner == SubSeq(text, 2, Len(text) - 1) IN
         IF inner = << >> THEN JArr(<< >>)
         ELSE LET v == from_str(inner) IN
              IF v = JErr THEN JErr ELSE JArr(<<v>>)
    ELSE JErr

\* ------------------------------------------------ lines of a response body
\* A line: whether it starts with "data: ", what follows the prefix ("json":
\* a JSON text, "junk": anything else, "[DONE]"), and for "json" the Value it
\* parses to; for "junk" chunk is what the text would have said had it not
\* been cut or garbled.
Line(prefix, raw, chunk) == [prefix |-> prefix, raw |-> raw, chunk |-> chunk]

\* line.strip_prefix("data: ") is Some(_)
strip_prefix(line) == line.prefix
\* serde_json::from_str(data) is Ok(_)
chunk_ok(line) == line.raw = "json"

\* the fields an adapter reads in a chunk; "" stands for a field that is
\* absent or null (as_str() gives None), << >> for an absent array
Chunk ==
    [finish_reason |-> "", content |-> "", tool_calls |-> << >>,
     type |-> "", block_type |-> "", id |-> "", name |-> "",
     delta_type |-> "", text |-> "", partial_json |-> << >>, stop_reason |-> "",
     parts |-> << >>]

\* one element of delta.tool_calls (provider C/D)
TcDelta(index, id, name, arguments) ==
    [index |-> index, id |-> id, name |-> name, arguments |-> arguments]

\* ------------------------------------------------- backend/openai.rs
OpenAiStart ==
    [text_chunks |-> << >>, raw_tcs |-> << >>, finish_reason |-> "", done |-> FALSE]

\* raw_tcs is kept as a sequence of (index, id, name, arguments) entries in
\* order of insertion; HasIdx and IdxPos look an index up
IdxPos(raw_tcs, idx) ==
    IF \E p \in 1..Len(raw_tcs) : raw_tcs[p].index = idx
    THEN CHOOSE p \in 1..Len(raw_tcs) : raw_tcs[p].index = idx
    ELSE 0

\* mutant (C16): the arguments fragment replaces what was accumulated, as
\* id and name do
OpenAiDeltaReplace(raw_tcs, d) ==
    LET p == IdxPos(raw_tcs, d.index)
        tcs == IF p = 0 THEN Append(raw_tcs, TcDelta(d.index, "", "", << >>))
               ELSE raw_tcs
        q == IF p = 0 THEN Len(tcs) ELSE p
    IN  [tcs EXCEPT ![q].id = IF d.id # "" THEN d.id ELSE @,
                    ![q].name = IF d.name # "" THEN d.name ELSE @,
                    ![q].arguments = IF d.arguments # << >> THEN d.arguments ELSE @]

\* raw_tcs.entry(idx).or_insert_with(..), then the three updates
OpenAiDelta(raw_tcs, d) ==
    LET p == IdxPos(raw_tcs, d.index)
        tcs == IF p = 0 THEN Append(raw_tcs, TcDelta(d.index, "", "", << >>))
               ELSE raw_tcs
        q == IF p = 0 THEN Len(tcs) ELSE p
    IN  [tcs EXCEPT ![q].id = IF d.id # "" THEN d.id ELSE @,
                    ![q].name = IF d.name # "" THEN d.name ELSE @,
                    ![q].arguments = @ \o d.arguments]

RECURSIVE OpenAiDeltas(_, _)
OpenAiDeltas(raw_tcs, ds) ==
    IF ds = << >> THEN raw_tcs
    ELSE OpenAiDeltas(OpenAiDelta(raw_tcs, Head(ds)), Tail(ds))

\* mutant (C17): the prefix is cut off where it is present
\* (trim_start_matches) and every line is handed to the JSON parser
OpenAiLineAnyPrefix(st, line) ==
    IF st.done THEN st
    ELSE IF line.prefix /\ line.raw = "[DONE]" THEN [st EXCEPT !.done = TRUE]
    ELSE IF ~chunk_ok(line) THEN st
    ELSE LET c == line.chunk IN
         [st EXCEPT
            !.finish_reason = IF c.finish_reason # "" THEN c.finish_reason ELSE @,
            !.text_chunks = IF c.content # "" THEN Append(@, c.content) ELSE @,
            !.raw_tcs = OpenAiDeltas(@, c.tool_calls)]

\* the body of `for line in body_str.lines()`
OpenAiLine(st, line) ==
    IF st.done THEN st
    ELSE IF line.prefix /\ line.raw = "[DONE]" THEN [st EXCEPT !.done = TRUE]
    ELSE IF ~strip_prefix(line) THEN st
    ELSE IF ~chunk_ok(line) THEN st
    ELSE LET c == line.chunk IN
         [st EXCEPT
            !.finish_reason = IF c.finish_reason # "" THEN c.finish_reason ELSE @,
            !.text_chunks = IF c.content # "" THEN Append(@, c.content) ELSE @,
            !.raw_tcs = OpenAiDeltas(@, c.tool_calls)]

RECURSIVE OpenAiFold(_, _)
OpenAiFold(st, lines) ==
    IF lines = << >> THEN st
    ELSE OpenAiFold(OpenAiLine(st, Head(lines)), Tail(lines))

\* Result::unwrap_or
unwrap_or(v, default) == IF v = JErr THEN default ELSE v

\* sorted_idx.sort(); for idx in sorted_idx { .. }
RECURSIVE SortByIndex(_)
SortByIndex(raw_tcs) ==
    IF raw_tcs = << >> THEN << >>
    ELSE LET p == CHOOSE p \in 1..Len(raw_tcs) :
                     \A q \in 1..Len(raw_tcs) : raw_tcs[p].index <= raw_tcs[q].index
             rest == [i \in 1..(Len(raw_tcs) - 1) |->
                         IF i < p THEN raw_tcs[i] ELSE raw_tcs[i + 1]]
         IN  <<raw_tcs[p]>> \o SortByIndex(rest)

\* an id the adapter makes up: format!("call_{}", Uuid::new_v4().simple())
GeneratedId == "call_uuid"

OpenAiToolCalls(raw_tcs) ==
    LET sorted == SortByIndex(raw_tcs) IN
    [i \in 1..Len(sorted) |->
        [id |-> IF sorted[i].id = "" THEN GeneratedId ELSE sorted[i].id,
         name |-> sorted[i].name,
         input |-> unwrap_or(from_str(sorted[i].arguments), JNull)]]

\* mutant (C15): every finish_reason other than "stop" counts as tool use
OpenAiStopUnlessStop(finish_reason) ==
    IF finish_reason # "stop" THEN "ToolUse" ELSE "EndTurn"

OpenAiStop(finish_reason) ==
    IF finish_reason = "tool_calls" THEN "ToolUse" ELSE "EndTurn"

OpenAiStreamTurn(lines) ==
    LET st == OpenAiFold(OpenAiStart, lines) IN
    [stop_reason |-> OpenAiStop(st.finish_reason),
     text |-> st.text_chunks,
     tool_calls |-> OpenAiToolCalls(st.raw_tcs)]

\* ----------------------------------------------- backend/anthropic.rs
\* current_tool_idx: 0 for None, else the position in tool_calls (from 1)
AnthropicStart ==
    [text_chunks |-> << >>, tool_calls |-> << >>, stop_reason_str |-> "",
     current_tool_idx |-> 0]

\* the body of `for line in body_str.lines()`
AnthropicLine(st, line) ==
    IF ~strip_prefix(line) THEN st
    ELSE IF ~chunk_ok(line) THEN st
    ELSE LET c == line.chunk
             idx == st.current_tool_idx
         IN
         CASE c.type = "content_block_start" ->
                IF c.block_type = "tool_use"
                THEN [st EXCEPT !.current_tool_idx = Len(st.tool_calls) + 1,
                                !.tool_calls = Append(@, [id |-> c.id, name |-> c.name,
                                                          input |-> JStr(<< >>)])]
                ELSE [st EXCEPT !.current_tool_idx = 0]
           [] c.type = "content_block_delta" ->
                IF c.delta_type = "text_delta"
                THEN [st EXCEPT !.text_chunks = IF c.text # "" THEN Append(@, c.text)
                                                ELSE @]
                ELSE IF c.delta_type = "input_json_delta" /\ idx # 0
                        /\ st.tool_calls[idx].input.t = "str"
                THEN [st EXCEPT !.tool_calls[idx].input =
                                   JStr(@.s \o c.partial_json)]
                ELSE st
           [] c.type = "content_block_stop" ->
                IF idx # 0
                THEN LET raw_json == IF st.tool_calls[idx].input.t = "str"
                                     THEN st.tool_calls[idx].input.s ELSE << >>
                     IN  [st EXCEPT !.tool_calls[idx].input =
                                        unwrap_or(from_str(raw_json), JObj),
                                    !.current_tool_idx = 0]
                ELSE st
           [] c.type = "message_delta" ->
                [st EXCEPT !.stop_reason_str =
                              IF c.stop_reason # "" THEN c.stop_reason ELSE @]
           [] OTHER -> st

RECURSIVE AnthropicFold(_, _)
AnthropicFold(st, lines) ==
    IF lines = << >> THEN st
    ELSE AnthropicFold(AnthropicLine(st, Head(lines)), Tail(lines))

AnthropicStop(stop_reason_str) ==
    IF stop_reason_str = "tool_use" THEN "ToolUse" ELSE "EndTurn"

AnthropicStreamTurn(lines) ==
    LET st == AnthropicFold(AnthropicStart, lines) IN
    [stop_reason |-> AnthropicStop(st.stop_reason_str),
     text |-> st.text_chunks,
     tool_calls |-> st.tool_calls]

\* -------------------------------------------------- backend/gemini.rs
\* one element of candidates[0].content.parts
NoCall == [present |-> FALSE, name |-> "", has_args |-> FALSE, args |-> JNull]
FnCall(name, has_args, args) ==
    [present |-> TRUE, name |-> name, has_args |-> has_args, args |-> args]
Part(text, fc) == [text |-> text, functionCall |-> fc]

GeminiStart == [text_chunks |-> << >>, tool_calls |-> << >>]

\* the body of `for part in parts`
GeminiPart(st, part) ==
    [st EXCEPT
       !.text_chunks = IF part.text # "" THEN Append(@, part.text) ELSE @,
       !.tool_calls =
           IF part.functionCall.present
           THEN Append(@, [id |-> GeneratedId,
                           name |-> part.functionCall.name,
                           input |-> IF part.functionCall.has_args
                                     THEN part.functionCall.args ELSE JObj])
           ELSE @]

RECURSIVE GeminiParts(_, _)
GeminiParts(st, parts) ==
    IF parts = << >> THEN st
    ELSE GeminiParts(GeminiPart(st, Head(parts)), Tail(parts))

\* the body of `for line in body_str.lines()`
GeminiLine(st, line) ==
    IF ~strip_prefix(line) THEN st
    ELSE IF ~chunk_ok(line) THEN st
    ELSE GeminiParts(st, line.chunk.parts)

RECURSIVE GeminiFold(_, _)
GeminiFold(st, lines) ==
    IF lines = << >> THEN st
    ELSE GeminiFold(GeminiLine(st, Head(lines)), Tail(lines))

GeminiStreamTurn(lines) ==
    LET st == GeminiFold(GeminiStart, lines) IN
    [stop_reason |-> IF st.tool_calls = << >> THEN "EndTurn" ELSE "ToolUse",
     text |-> st.text_chunks,
     tool_calls |-> st.tool_calls]

\* ------------------------------------------------------ history messages
\* A message of the history or of a request body: role, content (absent, a
\* string, or an array of items) and parts (absent or an array of items).
\* An item is a text, an image or a tool result.
Item(kind, text) == [kind |-> kind, text |-> text]
NoField == [k |-> "none", text |-> "", items |-> << >>]
StrField(text) == [k |-> "str", text |-> text, items |-> << >>]
ArrField(items) == [k |-> "arr", text |-> "", items |-> items]
Msg(role, content, parts) == [role |-> role, content |-> content, parts |-> parts]

\* openai.rs, anthropic.rs: json!({"role": "user", "content": text})
ContentUserMessage(text) == Msg("user", StrField(text), NoField)
\* gemini.rs: json!({"role": "user", "parts": [{"text": text}]})
PartsUserMessage(text) == Msg("user", NoField, ArrField(<<Item("text", text)>>))

make_user_message(b, text) ==
    IF b = "gemini" THEN PartsUserMessage(text) ELSE ContentUserMessage(text)

\* gemini.rs convert_history: the filter_map over a content array
RECURSIVE GeminiContentItems(_)
GeminiContentItems(items) ==
    IF items = << >> THEN << >>
    ELSE LET it == Head(items)
             rest == GeminiContentItems(Tail(items))
         IN  IF it.kind = "text" THEN <<Item("text", it.text)>> \o rest
             ELSE IF it.kind = "image_url" THEN <<Item("inlineData", it.text)>> \o rest
             ELSE rest

\* mutant (C19): convert_history reads OpenAI-style content only
GeminiMsgPartsContentOnly(msg) ==
    IF msg.content.k = "str" THEN <<Item("text", msg.content.text)>>
    ELSE IF msg.content.k = "arr" THEN GeminiContentItems(msg.content.items)
    ELSE << >>

\* gemini.rs convert_history: `let parts = ..` for one message
GeminiMsgParts(msg) ==
    IF msg.content.k = "str" THEN <<Item("text", msg.content.text)>>
    ELSE IF msg.content.k = "arr" THEN GeminiContentItems(msg.content.items)
    ELSE IF msg.parts.k = "arr" THEN msg.parts.items
    ELSE << >>

RECURSIVE convert_history(_)
convert_history(history) ==
    IF history = << >> THEN << >>
    ELSE LET msg == Head(history)
             gemini_role == IF msg.role \in {"assistant", "model"} THEN "model"
                            ELSE "user"
             parts == GeminiMsgParts(msg)
         IN  (IF parts # << >> THEN <<Msg(gemini_role, NoField, ArrField(parts))>>
              ELSE << >>) \o convert_history(Tail(history))

\* the messages each adapter puts into the request body
RequestMessages(b, history) ==
    CASE b = "gemini" -> convert_history(history)
      [] b = "anthropic" -> history
      [] OTHER -> <<Msg("system", StrField("system"), NoField)>> \o history

\* --------------------------------------------------- backend/mod.rs
\* mutant (C20): the "openai" arm is missing
CreateBackendNoOpenAi(p) ==
    CASE p = "anthropic" -> "anthropic"
      [] p = "gemini" -> "gemini"
      [] OTHER -> "kimi"

create_backend(p) ==
    CASE p = "anthropic" -> "anthropic"
      [] p = "gemini" -> "gemini"
      [] p = "openai" -> "openai"
      [] OTHER -> "kimi"

\* backend/kimi.rs is not part of the sources at hand; provider D speaks the
\* protocol of provider C
KimiStreamTurn(lines) == OpenAiStreamTurn(lines)

stream_turn_dyn(b, lines) ==
    CASE b = "anthropic" -> AnthropicStreamTurn(lines)
      [] b = "gemini" -> GeminiStreamTurn(lines)
      [] b = "openai" -> OpenAiStreamTurn(lines)
      [] OTHER -> KimiStreamTurn(lines)

\* ------------------------------------------------- responses and requests
Platforms == {"anthropic", "gemini", "openai", "kimi", "", "mistral"}
Texts == {"", "hi"}
Frags == { <<"[">>, <<"]">>, <<"1">> }

OpenAiChunks ==
    {[Chunk EXCEPT !.finish_reason = f] : f \in {"stop", "tool_calls", "tool_use"}}
    \cup {[Chunk EXCEPT !.content = "hi"]}
    \cup {[Chunk EXCEPT !.tool_calls = <<TcDelta(0, "id0", "see", << >>)>>]}
    \cup {[Chunk EXCEPT !.tool_calls = <<TcDelta(i, "", "", f)>>] :
             i \in 0..1, f \in Frags}
    \cup {[Chunk EXCEPT !.tool_calls = <<TcDelta(1, "id1", "look", <<"1">>),
                                        TcDelta(0, "", "", <<"1">>)>>]}

AnthropicChunks ==
    {[Chunk EXCEPT !.type = "content_block_start", !.block_type = "tool_use",
                   !.id = "tu1", !.name = "see"],
     [Chunk EXCEPT !.type = "content_block_start", !.block_type = "text"],
     [Chunk EXCEPT !.type = "content_block_delta", !.delta_type = "text_delta",
                   !.text = "hi"],
     [Chunk EXCEPT !.type = "content_block_stop"],
     [Chunk EXCEPT !.type = "ping"]}
    \cup {[Chunk EXCEPT !.type = "content_block_delta",
                        !.delta_type = "input_json_delta", !.partial_json = f] :
             f \in Frags}
    \cup {[Chunk EXCEPT !.type = "message_delta", !.stop_reason = r] :
             r \in {"tool_use", "end_turn", "tool_calls"}}

GeminiChunks ==
    {[Chunk EXCEPT !.parts = ps] :
        ps \in { << >>,
                 <<Part("hi", NoCall)>>,
                 <<Part("", FnCall("see", TRUE, JArr(<< >>)))>>,
                 <<Part("", FnCall("look", FALSE, JNull))>>,
                 <<Part("hi", NoCall), Part("", FnCall("see", TRUE, JNum(1)))>> }}

ChunksOf(b) ==
    CASE b = "anthropic" -> AnthropicChunks
      [] b = "gemini" -> GeminiChunks
      [] OTHER -> OpenAiChunks

\* chunks that also arrive without the prefix or cut short
GarbledOf(b) ==
    CASE b = "anthropic" ->
           {[Chunk EXCEPT !.type = "content_block_stop"],
            [Chunk EXCEPT !.type = "message_delta", !.stop_reason = "tool_use"]}
      [] b = "gemini" -> {[Chunk EXCEPT !.parts = <<Part("hi", NoCall)>>]}
      [] OTHER ->
           {[Chunk EXCEPT !.finish_reason = "tool_calls"],
            [Chunk EXCEPT !.tool_calls = <<TcDelta(0, "", "", <<"1">>)>>]}

LinesOf(b) ==
    {Line(TRUE, "json", c) : c \in ChunksOf(b)}
    \cup {Line(FALSE, "json", c) : c \in GarbledOf(b)}
    \cup {Line(TRUE, "junk", c) : c \in GarbledOf(b)}

DoneLine == Line(TRUE, "[DONE]", Chunk)

\* provider C/D end a body with "data: [DONE]"; the other providers do not
\* send it
BodiesOf(b) ==
    LET bodies == UNION {[1..n -> LinesOf(b)] : n \in 0..MaxLines} IN
    IF b \in {"anthropic", "gemini"} THEN bodies
    ELSE bodies \cup {Append(l, DoneLine) : l \in bodies}

\* --------------------------------------------- one call of a backend
\* Agent::run: let backend = create_backend(&self.config)
LoadConfig ==
    /\ platform = "" /\ backend = "none"
    /\ \E p \in Platforms :
         /\ platform' = p
         /\ backend' = create_backend(p)
    /\ UNCHANGED <<user_text, wire, body_lines, turn_result, shellvars, permvars, fnvars, waitvars, cmdvars>>

\* history.push(backend.make_user_message(user_input)); stream_turn_dyn builds
\* the request from the history and reads the response body
StreamTurnDyn ==
    /\ backend # "none" /\ user_text = "none"
    /\ \E text \in Texts, lines \in BodiesOf(backend) :
         /\ user_text' = text
         /\ wire' = RequestMessages(backend, <<make_user_message(backend, text)>>)
         /\ body_lines' = lines
         /\ turn_result' = stream_turn_dyn(backend, lines)
    /\ UNCHANGED <<platform, backend, shellvars, permvars, fnvars, waitvars, cmdvars>>

NextBackend == LoadConfig \/ StreamTurnDyn

\* no Agent is in the slot while the adapters are looked at on their own
InitBackend == Init /\ nagents = 0

SpecBackend == InitBackend /\ [][NextBackend]_vars

\* ==================================================== claims C1 - C10
TurnOf(t) == turns[turn_of[t]]
Range(f) == {f[i] : i \in DOMAIN f}

\* C1: under any interleaving of send_message, heartbeat ticks, save_config,
\* clear_history and cancel_message, at most one Agent::run is executing.
C1_AtMostOneTurn ==
    Cardinality({t \in Tasks : pc[t] \in RunPcs}) <= 1

\* C2: whenever a dispatched turn ends (EndTurn, iteration cap or backend
\* error), run_agent_turn has put the Agent it took back into the slot.
C2_SlotRestoredWhenTurnEnds ==
    [][\A t \in Tasks :
          (pc[t] \in InTurnPcs /\ pc'[t] = "idle") => agent_slot' = agent[t]]_vars

\* C3: the events relayed for a dispatched turn end with exactly one terminal
\* event: when the relay task stops listening it has relayed one terminal
\* event, and that event is the last one it relayed.
C3_RelayEndsWithOneTerminal ==
    [][\A k \in TurnIds :
          (turns[k].rx_open /\ ~turns'[k].rx_open)
              => /\ turns'[k].relayed_term = 1
                 /\ turns'[k].relayed_last \in Terminal]_vars

\* C4: when a backend call fails, the turn emits an Error event, makes no
\* further backend call, and the session (history and desires as they were
\* at the failure) is in the slot for the next user turn.
C4_BackendFailureKeepsSession ==
    [][\A t \in Tasks :
          (pc[t] = "stream" /\ turns'[turn_of[t]].stop = "Err")
              => /\ "error" \in Range(turns'[turn_of[t]].emitted)
                 /\ turns'[turn_of[t]].backend_calls <= turns[turn_of[t]].backend_calls
                 /\ agent_slot'.id = agent[t].id
                 /\ agent_slot'.history = agent[t].history
                 /\ agent_slot'.desires = agent[t].desires]_vars

\* C5: if the cancellation flag is set while a running turn is between two
\* rounds, the next round makes no backend call (and the turn ends with
\* Cancelled, not Done).
C5_CancelStopsNextRound ==
    [][\A t \in Tasks :
          (pc[t] = "round" /\ cancel_flag /\ TurnOf(t).backend_calls >= 1)
              => /\ pc'[t] # "stream"
                 /\ "done" \notin Range(turns'[turn_of[t]].emitted)]_vars

\* C6: in one turn the backend is called at most MAX_ITERATIONS times,
\* whatever the backend returns.
C6_BackendCallsBounded ==
    \A k \in TurnIds : turns[k].backend_calls <= MAX_ITERATIONS

\* a turn that used up every round and is about to report it
C6_Witness ==
    \E t \in Tasks :
        /\ pc[t] = "round"
        /\ TurnOf(t).iter = MAX_ITERATIONS
        /\ TurnOf(t).backend_calls = MAX_ITERATIONS

\* C7: when the backend answers ToolUse in every round up to the cap, the
\* turn emits exactly one Error followed by exactly one Done and returns Ok:
\* it still holds its Agent and goes on to wait for the relay and put it back.
C7_CapEmitsErrorThenDone ==
    \A t \in Tasks :
        /\ (pc[t] = "send_done" /\ TurnOf(t).stop = "ToolUse")
              => /\ TurnOf(t).emitted = <<"error">>
                 /\ TurnOf(t).backend_calls = MAX_ITERATIONS
                 /\ agent[t].id # 0
        /\ (pc[t] = "await_relay" /\ TurnOf(t).stop = "ToolUse")
              => /\ TurnOf(t).emitted = <<"error", "done">>
                 /\ TurnOf(t).backend_calls = MAX_ITERATIONS
                 /\ agent[t].id # 0

\* the capped turn has sent both events and its relay has ended
C7_Witness ==
    \E t \in Tasks :
        /\ pc[t] = "await_relay"
        /\ TurnOf(t).stop = "ToolUse"
        /\ ~TurnOf(t).rx_open

\* C8: a failing tool execution becomes the ToolResult of that call id with
\* the text "Tool error"; the remaining calls of the round are still executed
\* and the round is closed with one result per call, on to the next round.
C8_ToolFailureContained ==
    [][\A t \in Tasks :
          (pc[t] = "tool_exec" /\ pc'[t] # "tool_exec") =>
              LET k == turn_of[t]
                  tc == turns[k].calls[Len(turns[k].results) + 1]
                  r == turns'[k].last_exec
                  n == Len(turns[k].calls)
              IN  /\ r.call_id = tc.id
                  /\ r.failed => r.text = "Tool error"
                  /\ pc'[t] \in {"tool_action", "round"}
                  /\ turn_of'[t] = k
                  /\ Len(turns[k].results) + 1 < n
                        => /\ pc'[t] = "tool_action"
                           /\ turns'[k].results =
                                Append(turns[k].results,
                                       [call_id |-> r.call_id, text |-> r.text])
                           /\ turns'[k].iter = turns[k].iter
                  /\ Len(turns[k].results) + 1 = n
                        => /\ pc'[t] = "round"
                           /\ turns'[k].iter = turns[k].iter + 1
                           /\ Len(agent'[t].history) = Len(agent[t].history) + n]_vars

\* the first of two tool calls failed and the loop is at the second
C8_Witness ==
    \E t \in Tasks :
        /\ pc[t] = "tool_action"
        /\ TurnOf(t).last_exec.failed
        /\ Len(TurnOf(t).results) = 1
        /\ Len(TurnOf(t).calls) = 2

\* C9: in a ToolUse round the Action event of a tool call is sent before that
\* tool is executed; Done is sent only when the last backend result was
\* EndTurn or the cap is exhausted, and a ToolUse result never leads straight
\* to Done.
C9_ActionBeforeExecDoneAfterEndTurn ==
    [][\A t \in Tasks :
          LET k == turn_of[t] IN
          /\ (pc[t] = "tool_exec" /\ pc'[t] # "tool_exec")
                => turns[k].last_action = turns[k].calls[Len(turns[k].results) + 1].id
          /\ (pc[t] = "stream" /\ pc'[t] # "stream" /\ turns'[k].stop = "ToolUse")
                => pc'[t] \in {"tool_action", "round"}
          /\ (pc[t] \in RunPcs /\ turn_of'[t] = k
                /\ Len(turns'[k].emitted) > Len(turns[k].emitted)
                /\ turns'[k].emitted[Len(turns'[k].emitted)] = "done")
                => \/ turns[k].stop = "EndTurn"
                   \/ /\ turns[k].stop = "ToolUse"
                      /\ turns[k].backend_calls = MAX_ITERATIONS
                      /\ turns[k].emitted = <<"error">>]_vars

\* a turn whose first result was ToolUse has sent Done after a second call
\* returned EndTurn
C9_Witness ==
    \E t \in Tasks :
        /\ pc[t] = "await_relay"
        /\ TurnOf(t).stop = "EndTurn"
        /\ TurnOf(t).backend_calls = 2
        /\ TurnOf(t).emitted = <<"done">>

\* C10: a heartbeat tick leads to a dispatch only if, at the tick, the Agent
\* is in the slot and one of its desires is at or above the threshold; a tick
\* that finds the slot empty goes back to sleep without waiting and leaves
\* the slot, the flag and every turn as they are.
SomeDesireAtThreshold(a) ==
    \E i \in 1..Len(DesireNames) : a.desires[DesireNames[i]] >= THRESHOLD

C10_HeartbeatSkipsWhenBusy ==
    [][/\ (pc[hb] = "idle" /\ pc'[hb] # "idle")
            => /\ pc'[hb] = "hb_if"
               /\ should_tick' = (agent_slot.id # 0 /\ SomeDesireAtThreshold(agent_slot))
               /\ UNCHANGED <<agent_slot, cancel_flag, agent, turn_of, turns, ndispatch>>
       /\ (pc[hb] = "hb_if" /\ pc'[hb] = "hb_if") => should_tick' = should_tick
       /\ (pc[hb] = "hb_if" /\ pc'[hb] # "hb_if")
            => IF should_tick
               THEN pc'[hb] = "take"
               ELSE /\ pc'[hb] = "idle"
                    /\ UNCHANGED <<agent_slot, cancel_flag, agent, turn_of, turns,
                                   ndispatch>>
       /\ (pc[hb] \notin InTurnPcs /\ pc'[hb] \in InTurnPcs) => pc[hb] = "take"]_vars

\* the tick found the slot taken by a foreground turn
C10_Witness ==
    /\ pc[hb] = "hb_if"
    /\ ~should_tick
    /\ agent_slot.id = 0
    /\ \E t \in Fg : pc[t] \in RunPcs

\* ==================================================== claims C11 - C20
\* C11: a send_message made while no Agent is in the slot (none configured,
\* or a turn in flight) is rejected at once: the call changes neither the
\* slot nor the cancellation flag nor the permission registry, and its take
\* fails without starting a turn.
C11_RejectedDispatchChangesNothing ==
    [][\A t \in Fg :
          /\ (pc[t] = "idle" /\ pc'[t] = "take" /\ agent_slot.id = 0)
                => UNCHANGED <<agent_slot, cancel_flag, pending_perms>>
          /\ (pc[t] = "take" /\ pc'[t] # "take" /\ agent_slot.id = 0)
                => /\ pc'[t] = "idle"
                   /\ UNCHANGED <<agent_slot, cancel_flag, pending_perms, agent,
                                  turns>>]_vars

\* C12: a Text chunk produced while the channel is full is dropped and the
\* turn goes on streaming; a terminal event (Done, Error) is sent only when
\* the channel has room or the receiver is gone, and a turn that has one to
\* send while the channel is full stays where it is until the relay has made
\* room.
C12_TextDroppedTerminalQueued ==
    [][\A t \in Tasks :
          LET k == turn_of[t] IN
          /\ (pc[t] = "stream" /\ turns'[k].chunks = turns[k].chunks + 1)
                => /\ pc'[t] = "stream"
                   /\ (turns[k].rx_open /\ Len(turns[k].chan) = ChanCap)
                         => turns'[k].chan = turns[k].chan
                   /\ (turns[k].rx_open /\ Len(turns[k].chan) < ChanCap)
                         => turns'[k].chan = Append(turns[k].chan, Ev("text", ""))
          /\ (pc[t] \in RunPcs /\ turn_of'[t] = k
                /\ Len(turns'[k].emitted) = Len(turns[k].emitted) + 1)
                => (turns[k].rx_open
                      => /\ Len(turns[k].chan) < ChanCap
                         /\ turns'[k].chan =
                              Append(turns[k].chan,
                                     Ev(turns'[k].emitted[Len(turns'[k].emitted)], "")))
          /\ (/\ \/ pc[t] = "send_done"
                 \/ pc[t] = "round" /\ turns[k].iter >= MAX_ITERATIONS
              /\ turns[k].rx_open /\ Len(turns[k].chan) = ChanCap
              /\ turns'[k].rx_open /\ Len(turns'[k].chan) = ChanCap)
                => /\ pc'[t] = pc[t]
                   /\ turns'[k].emitted = turns[k].emitted]_vars

\* a backend call has produced a chunk while the channel was full: the chunk
\* is not in the channel, and the call is still streaming
C12_Witness ==
    \E t \in Tasks :
        /\ pc[t] = "stream"
        /\ TurnOf(t).chunks = 1
        /\ TurnOf(t).rx_open
        /\ Len(TurnOf(t).chan) = ChanCap
        /\ TurnOf(t).chan[ChanCap].type # "text"

\* C13: a pending permission request is resolved at most once.  A
\* respond_permission that delivers a decision finds the id registered,
\* removes it and hands the decision to the waiting receiver; once an id is
\* resolved, or while it was never registered, no respond_permission changes
\* what its receiver holds, the registry or the number of deliveries.
C13_PermissionResolvedOnce ==
    [][\A id \in PermIds :
          /\ perm_sends'[id] <= 1
          /\ perm_sends'[id] # perm_sends[id]
                => /\ id \in pending_perms
                   /\ pending_perms' = pending_perms \ {id}
                   /\ perm_rx[id] = "waiting"
                   /\ perm_rx'[id] \in {"allowed", "denied"}
                   /\ \A j \in PermIds \ {id} :
                         perm_rx'[j] = perm_rx[j] /\ perm_sends'[j] = perm_sends[j]
          /\ perm_rx[id] \in {"allowed", "denied"}
                => /\ perm_rx'[id] = perm_rx[id]
                   /\ perm_sends'[id] = perm_sends[id]
                   /\ id \notin pending_perms'
          /\ (perm_rx[id] = "none" /\ perm_rx'[id] = "none")
                => /\ perm_sends'[id] = 0
                   /\ id \notin pending_perms']_vars

\* one request has been denied and removed while another is still pending
C13_Witness ==
    \E id, j \in PermIds :
        /\ perm_rx[id] = "denied"
        /\ perm_sends[id] = 1
        /\ id \notin pending_perms
        /\ j \in pending_perms
        /\ perm_rx[j] = "waiting"

\* the adapters whose code is in the sources
SourceAdapters == {"anthropic", "gemini", "openai"}

\* C14: a TurnResult returned by an adapter with stop_reason ToolUse has a
\* non-empty tool-call list, whatever body the provider sent (stated for the
\* adapters of anthropic.rs, gemini.rs and openai.rs).
C14_ToolUseHasCalls ==
    (backend \in SourceAdapters /\ turn_result.stop_reason = "ToolUse")
        => turn_result.tool_calls # << >>

\* the provider's terminal signal in a body: the last finish_reason (provider
\* C/D) or message_delta stop_reason (provider A) among the lines that carry
\* the prefix and a JSON payload; "" when there is none
RECURSIVE LastSignal(_, _, _)
LastSignal(lines, b, sig) ==
    IF lines = << >> THEN sig
    ELSE LET l == Head(lines)
             v == IF b = "anthropic"
                  THEN (IF l.chunk.type = "message_delta" THEN l.chunk.stop_reason
                        ELSE "")
                  ELSE l.chunk.finish_reason
         IN  LastSignal(Tail(lines), b,
                        IF l.prefix /\ l.raw = "json" /\ v # "" THEN v ELSE sig)

\* C15: the adapters of provider C/D return ToolUse exactly when the terminal
\* signal is "tool_calls" and the adapter of provider A exactly when it is
\* "tool_use"; for every other value, and when there is none, they return
\* EndTurn.
C15_StopReasonMapping ==
    (turn_result # NoResult /\ backend # "gemini") =>
        LET sig == LastSignal(body_lines, backend, "")
            tool_use == IF backend = "anthropic" THEN "tool_use" ELSE "tool_calls"
        IN  /\ turn_result.stop_reason \in {"ToolUse", "EndTurn"}
            /\ turn_result.stop_reason = "ToolUse" <=> sig = tool_use

\* provider C's adapter met the tool-use value of another provider and
\* returned EndTurn
C15_Witness ==
    /\ backend = "openai"
    /\ LastSignal(body_lines, backend, "") = "tool_use"
    /\ turn_result.stop_reason = "EndTurn"

\* the lines an adapter of provider C/D takes in: up to "data: [DONE]", with
\* the prefix and a JSON payload
RECURSIVE ReceivedChunks(_)
ReceivedChunks(lines) ==
    IF lines = << >> THEN << >>
    ELSE LET l == Head(lines) IN
         IF l.prefix /\ l.raw = "[DONE]" THEN << >>
         ELSE (IF l.prefix /\ l.raw = "json" THEN <<l.chunk>> ELSE << >>)
                 \o ReceivedChunks(Tail(lines))

\* all tool-call deltas of the received chunks, in arrival order
RECURSIVE AllDeltas(_)
AllDeltas(chunks) ==
    IF chunks = << >> THEN << >>
    ELSE Head(chunks).tool_calls \o AllDeltas(Tail(chunks))

\* the concatenation, in arrival order, of the arguments fragments for index i
RECURSIVE ArgsFor(_, _)
ArgsFor(deltas, i) ==
    IF deltas = << >> THEN << >>
    ELSE (IF Head(deltas).index = i THEN Head(deltas).arguments ELSE << >>)
            \o ArgsFor(Tail(deltas), i)

\* C16: for provider C/D the result has one tool call per index that occurs,
\* in index order, and the input of the call for index i is the parse of the
\* concatenation, in arrival order, of all arguments fragments received for
\* i (Null when that text is not JSON), however the text was split and
\* however the fragments of different indices interleave.
C16_FragmentsConcatenatedThenParsed ==
    (turn_result # NoResult /\ backend \notin {"anthropic", "gemini"}) =>
        LET deltas == AllDeltas(ReceivedChunks(body_lines))
            idxs == {deltas[p].index : p \in 1..Len(deltas)}
        IN  /\ Len(turn_result.tool_calls) = Cardinality(idxs)
            /\ \A i \in idxs :
                 LET pos == Cardinality({j \in idxs : j <= i})
                     v == from_str(ArgsFor(deltas, i))
                 IN  turn_result.tool_calls[pos].input =
                        (IF v = JErr THEN JNull ELSE v)

\* "[" and "]" for index 0 arrived around a fragment for index 1, and the
\* call for index 0 carries the empty array
C16_Witness ==
    /\ backend = "openai"
    /\ Len(body_lines) = 3
    /\ Len(body_lines[2].chunk.tool_calls) = 1
    /\ body_lines[2].chunk.tool_calls[1].index = 1
    /\ Len(turn_result.tool_calls) = 2
    /\ turn_result.tool_calls[1].input = JArr(<< >>)
    /\ turn_result.tool_calls[2].input = JNum(1)

\* a body without the lines that lack the prefix or whose payload is not JSON
WithoutMalformed(lines) ==
    SelectSeq(lines, LAMBDA l : l.prefix /\ l.raw = "json")

\* C17: a line without the "data: " prefix, or with a payload that is not
\* JSON, is skipped by every adapter: the call returns a TurnResult, and it
\* is the TurnResult the adapter returns for the body without those lines.
C17_MalformedLinesSkipped ==
    turn_result # NoResult =>
        /\ turn_result.stop_reason \in {"EndTurn", "ToolUse"}
        /\ turn_result = stream_turn_dyn(backend, WithoutMalformed(body_lines))

\* a body held a garbled line next to a text chunk that was taken in
C17_Witness ==
    /\ backend \in SourceAdapters
    /\ turn_result.text # << >>
    /\ \E p \in 1..Len(body_lines) :
          /\ body_lines[p].raw # "[DONE]"
          /\ ~(body_lines[p].prefix /\ body_lines[p].raw = "json")

\* the partial_json fragments received between the content_block_start of
\* the k-th tool_use block and its content_block_stop, concatenated; cur
\* counts the tool_use blocks started, open says whether the last one is
\* still open
RECURSIVE BlockArgs(_, _, _, _)
BlockArgs(chunks, k, cur, open) ==
    IF chunks = << >> THEN << >>
    ELSE LET c == Head(chunks)
             rest == Tail(chunks)
         IN
         CASE c.type = "content_block_start" /\ c.block_type = "tool_use" ->
                BlockArgs(rest, k, cur + 1, TRUE)
           [] c.type = "content_block_start" /\ c.block_type # "tool_use" ->
                BlockArgs(rest, k, cur, FALSE)
           [] c.type = "content_block_stop" ->
                BlockArgs(rest, k, cur, FALSE)
           [] c.type = "content_block_delta" /\ c.delta_type = "input_json_delta"
                /\ open /\ cur = k ->
                c.partial_json \o BlockArgs(rest, k, cur, open)
           [] OTHER -> BlockArgs(rest, k, cur, open)

\* C18: for provider A every ToolCall of the returned TurnResult carries a
\* structured input, never the raw accumulated string: the parse of the
\* partial_json fragments received between its content_block_start and its
\* content_block_stop (the empty object when they are not JSON); fragments
\* that arrive while no tool block is open belong to no call.
C18_AnthropicInputParsed ==
    (turn_result # NoResult /\ backend = "anthropic") =>
        \A k \in 1..Len(turn_result.tool_calls) :
            /\ turn_result.tool_calls[k].input.t # "str"
            /\ turn_result.tool_calls[k].input =
                 unwrap_or(from_str(BlockArgs(ReceivedChunks(body_lines), k, 0, FALSE)),
                           JObj)

\* the texts a message of a request body carries as its content
TextsOf(m) ==
    IF m.content.k = "str" THEN <<m.content.text>>
    ELSE LET items == IF m.content.k = "arr" THEN m.content.items
                      ELSE m.parts.items
             texts == SelectSeq(items, LAMBDA it : it.kind = "text")
         IN  [i \in 1..Len(texts) |-> texts[i].text]

\* C19: for every adapter and every text, the request built from the history
\* that holds make_user_message(text) has exactly one user message, and its
\* content is exactly the text.
C19_UserMessageRoundTrip ==
    user_text # "none" =>
        LET users == SelectSeq(wire, LAMBDA m : m.role = "user") IN
        /\ Len(users) = 1
        /\ TextsOf(users[1]) = <<user_text>>

\* the empty text went through convert_history of provider B
C19_Witness ==
    /\ backend = "gemini"
    /\ user_text = ""
    /\ Len(wire) = 1
    /\ wire[1].parts.k = "arr"

\* C20: create_backend returns the adapter of provider A, B or C exactly for
\* the platform values "anthropic", "gemini" and "openai", and the adapter of
\* provider D for every other value, the empty string included.
C20_BackendSelection ==
    backend # "none" =>
        /\ backend = "anthropic" <=> platform = "anthropic"
        /\ backend = "gemini" <=> platform = "gemini"
        /\ backend = "openai" <=> platform = "openai"
        /\ backend = "kimi" <=> platform \notin {"anthropic", "gemini", "openai"}

\* an unknown platform got the default adapter and a turn went through it
C20_Witness ==
    /\ platform = "mistral"
    /\ backend = "kimi"
    /\ turn_result # NoResult

\* ================================================== make_tool_results
\* backend/mod.rs ToolResult; image_b64 is an Option
NoImage == [some |-> FALSE, data |-> ""]
SomeImage(data) == [some |-> TRUE, data |-> data]
ToolResult(call_id, text, image_b64) ==
    [call_id |-> call_id, text |-> text, image_b64 |-> image_b64]

\* {"role": "tool", "tool_call_id": .., "content": ..}
ToolMsg(call_id, text) ==
    [role |-> "tool", tool_call_id |-> call_id, content |-> StrField(text),
     parts |-> NoField]
\* format!("data:image/jpeg;base64,{img}")
DataUrl(img) == <<"data:image/jpeg;base64,", img>>
\* {"role": "user", "content": [{"type": "image_url", "image_url": {"url": ..}}]}
ImageUrlMsg(img) == Msg("user", ArrField(<<Item("image_url", DataUrl(img))>>), NoField)

\* mutant (C21): the image message is pushed before the tool message
RECURSIVE OpenAiMakeToolResultsImageFirst(_)
OpenAiMakeToolResultsImageFirst(results) ==
    IF results = << >> THEN << >>
    ELSE LET r == Head(results)
         IN  (IF r.image_b64.some THEN <<ImageUrlMsg(r.image_b64.data)>> ELSE << >>)
             \o <<ToolMsg(r.call_id, r.text)>>
             \o OpenAiMakeToolResultsImageFirst(Tail(results))

\* openai.rs make_tool_results: for r in results { msgs.push(tool message);
\* if let Some(img) { msgs.push(user image message) } }
RECURSIVE OpenAiMakeToolResults(_)
OpenAiMakeToolResults(results) ==
    IF results = << >> THEN << >>
    ELSE LET r == Head(results)
         IN  <<ToolMsg(r.call_id, r.text)>>
             \o (IF r.image_b64.some THEN <<ImageUrlMsg(r.image_b64.data)>> ELSE << >>)
             \o OpenAiMakeToolResults(Tail(results))

\* anthropic.rs: {"type": "tool_result", "tool_use_id": .., "content": [..]}
ToolResultBlock(call_id, result_content) ==
    [kind |-> "tool_result", tool_use_id |-> call_id, content |-> result_content]

\* anthropic.rs make_tool_results: one tool_result block per result, its
\* content the text and, when there is one, the image; all in one user message
AnthropicMakeToolResults(results) ==
    LET content == [i \in 1..Len(results) |->
                      ToolResultBlock(results[i].call_id,
                          <<Item("text", results[i].text)>>
                          \o (IF results[i].image_b64.some
                              THEN <<Item("image", results[i].image_b64.data)>>
                              ELSE << >>))]
    IN  <<Msg("user", ArrField(content), NoField)>>

\* gemini.rs: {"functionResponse": {"name": .., "response": {"result": ..}}}
FunctionResponse(name, result) ==
    [kind |-> "functionResponse", name |-> name, text |-> result]

\* gemini.rs make_tool_results: per result a functionResponse part and, when
\* there is an image, an inlineData part; all in one user message
RECURSIVE GeminiResultParts(_)
GeminiResultParts(results) ==
    IF results = << >> THEN << >>
    ELSE LET r == Head(results)
         IN  <<FunctionResponse(r.call_id, r.text)>>
             \o (IF r.image_b64.some THEN <<Item("inlineData", r.image_b64.data)>>
                 ELSE << >>)
             \o GeminiResultParts(Tail(results))

GeminiMakeToolResults(results) ==
    <<Msg("user", NoField, ArrField(GeminiResultParts(results)))>>

\* backend/kimi.rs is not part of the sources at hand; provider D encodes
\* results as provider C does
KimiMakeToolResults(results) == OpenAiMakeToolResults(results)

\* LlmBackendDyn::make_tool_results of the adapter create_backend returned
make_tool_results_dyn(b, results) ==
    CASE b = "anthropic" -> AnthropicMakeToolResults(results)
      [] b = "gemini" -> GeminiMakeToolResults(results)
      [] b = "openai" -> OpenAiMakeToolResults(results)
      [] OTHER -> KimiMakeToolResults(results)

\* the results of one round: up to MaxResults, with and without an image
MaxResults == 2
ResultPool ==
    {ToolResult(id, "out", img) : id \in {"c1", "c2"},
                                  img \in {NoImage, SomeImage("b64")}}
ResultLists == UNION {[1..n -> ResultPool] : n \in 0..MaxResults}

\* Agent::run: let result_msgs = backend.make_tool_results(&tool_results)
MakeToolResults ==
    /\ backend # "none" /\ ~result_msgs.returned
    /\ \E results \in ResultLists :
         /\ tool_results' = results
         /\ result_msgs' = [returned |-> TRUE,
                            msgs |-> make_tool_results_dyn(backend, results)]
    /\ UNCHANGED <<desires, desire_op, desire_nops, perm_query, perm_verdict>>
    /\ UNCHANGED <<shellvars, permvars, backendvars, waitvars, cmdvars>>

NextResults == LoadConfig \/ MakeToolResults

SpecResults == InitBackend /\ [][NextResults]_vars

\* ========================================================= permissions.rs
\* Patterns and arguments are sequences of one-character strings.
RECURSIVE glob_match_inner(_, _)
glob_match_inner(pat, inp) ==
    IF pat = << >> THEN inp = << >>
    ELSE IF Head(pat) = "*"
         THEN LET rest_pat == IF Len(pat) >= 2 /\ pat[2] = "*"
                              THEN SubSeq(pat, 3, Len(pat))
                              ELSE Tail(pat)
              IN  \E i \in 0..Len(inp) :
                     glob_match_inner(rest_pat, SubSeq(inp, i + 1, Len(inp)))
         ELSE /\ inp # << >>
              /\ Head(pat) = Head(inp)
              /\ glob_match_inner(Tail(pat), Tail(inp))

glob_match(pattern, input) == glob_match_inner(pattern, input)

PermRule(allow, tool, pattern) == [allow |-> allow, tool |-> tool, pattern |-> pattern]

\* PermRule::matches
matches(rule, tool, arg) ==
    IF rule.tool # tool /\ rule.tool # "*" THEN FALSE
    ELSE glob_match(rule.pattern, arg)

READ_ONLY_TOOLS == {"read_file", "list_files", "grep", "glob"}

\* the tail of the Prompt and Custom arms
ReadOnlyOrPrompt(tool) ==
    IF tool \in READ_ONLY_TOOLS THEN "Allow" ELSE "NeedsPrompt"

\* mutant (C30): the loop does not return at the first match, the last
\* matching rule decides
RECURSIVE CustomRulesLastWins(_, _, _)
CustomRulesLastWins(rules, tool, arg) ==
    IF rules = << >> THEN ReadOnlyOrPrompt(tool)
    ELSE LET later == CustomRulesLastWins(Tail(rules), tool, arg)
         IN  IF matches(Head(rules), tool, arg)
                /\ ~\E i \in 2..Len(rules) : matches(rules[i], tool, arg)
             THEN (IF Head(rules).allow THEN "Allow" ELSE "Deny")
             ELSE later

\* the Custom arm: for rule in rules { if rule.matches(..) { return .. } }
RECURSIVE CustomRules(_, _, _)
CustomRules(rules, tool, arg) ==
    IF rules = << >> THEN ReadOnlyOrPrompt(tool)
    ELSE IF matches(Head(rules), tool, arg)
         THEN (IF Head(rules).allow THEN "Allow" ELSE "Deny")
         ELSE CustomRules(Tail(rules), tool, arg)

check_permission(mode, rules, tool, arg) ==
    CASE mode = "Full" -> "Allow"
      [] mode = "Prompt" -> ReadOnlyOrPrompt(tool)
      [] mode = "Custom" -> CustomRules(rules, tool, arg)

\* the calls looked at: every mode, rule lists of up to MaxRules rules
MaxRules == 2
TrustModes == {"Full", "Prompt", "Custom"}
ToolNames == {"bash", "read_file", "write_file"}
Args == { << >>, <<"r">>, <<"r", "m">> }
Patterns == { <<"*">>, <<"r", "*">>, <<"r", "m">>, <<"*", "*", "m">> }
RulePool ==
    {PermRule(a, t, p) : a \in BOOLEAN, t \in {"bash", "read_file", "*"}, p \in Patterns}
RuleLists == UNION {[1..n -> RulePool] : n \in 0..MaxRules}

CheckPermission ==
    /\ perm_query = NoQuery
    /\ \E mode \in TrustModes, rules \in RuleLists, tool \in ToolNames, arg \in Args :
         /\ perm_query' = [mode |-> mode, rules |-> rules, tool |-> tool, arg |-> arg]
         /\ perm_verdict' = check_permission(mode, rules, tool, arg)
    /\ UNCHANGED <<tool_results, result_msgs, desires, desire_op, desire_nops>>
    /\ UNCHANGED <<shellvars, permvars, backendvars, waitvars, cmdvars>>

NextCheck == CheckPermission

SpecCheck == Init /\ [][NextCheck]_vars

\* ============================================= DesireState on its own
\* strongest() returns the level with the name: .map(|(name, level)| ..)
strongest_level(d) ==
    LET i == StrongestFrom(d, 1, 0)
    IN  IF i = 0 THEN 0 ELSE d[DesireNames[i]]

\* arguments: the four names and one that is none of them; amounts that
\* reach 0.599, 0.6, 0.0 and 1.0 from the seed values; elapsed seconds
MaxOps == 3
OpNames == {"observe_room", "look_outside", "browse_curiosity", "miss_companion",
            "sleep"}
Amounts == {0, 150, 199, 299, 400}
OpElapsed == {0, 600, 7200}

DesireOp(op, name, amount, ret) ==
    [op |-> op, name |-> name, amount |-> amount, before |-> desires, ret |-> ret]
NoRet == [name |-> "", level |-> 0]

\* desires.decay() after `elapsed` seconds
Decay ==
    /\ desire_nops < MaxOps
    /\ \E elapsed \in OpElapsed :
         /\ desires' = decay(desires, elapsed)
         /\ desire_op' = DesireOp("decay", "", elapsed, NoRet)
    /\ desire_nops' = desire_nops + 1
    /\ UNCHANGED <<tool_results, result_msgs, perm_query, perm_verdict>>
    /\ UNCHANGED <<shellvars, permvars, backendvars, waitvars, cmdvars>>

\* desires.boost(name, amount)
Boost ==
    /\ desire_nops < MaxOps
    /\ \E name \in OpNames, amount \in Amounts :
         /\ desires' = boost(desires, name, amount)
         /\ desire_op' = DesireOp("boost", name, amount, NoRet)
    /\ desire_nops' = desire_nops + 1
    /\ UNCHANGED <<tool_results, result_msgs, perm_query, perm_verdict>>
    /\ UNCHANGED <<shellvars, permvars, backendvars, waitvars, cmdvars>>

\* desires.satisfy(name, amount)
Satisfy ==
    /\ desire_nops < MaxOps
    /\ \E name \in OpNames, amount \in Amounts :
         /\ desires' = satisfy(desires, name, amount)
         /\ desire_op' = DesireOp("satisfy", name, amount, NoRet)
    /\ desire_nops' = desire_nops + 1
    /\ UNCHANGED <<tool_results, result_msgs, perm_query, perm_verdict>>
    /\ UNCHANGED <<shellvars, permvars, backendvars, waitvars, cmdvars>>

\* Agent::clear_history: self.desires = DesireState::default()
Reset ==
    /\ desire_nops < MaxOps
    /\ desires' = DesireDefault
    /\ desire_op' = DesireOp("reset", "", 0, NoRet)
    /\ desire_nops' = desire_nops + 1
    /\ UNCHANGED <<tool_results, result_msgs, perm_query, perm_verdict>>
    /\ UNCHANGED <<shellvars, permvars, backendvars, waitvars, cmdvars>>

\* desires.strongest(): &self, the state stays as it is
Strongest ==
    /\ desire_op.op # "strongest"
    /\ desire_op' = DesireOp("strongest", "", 0,
                             [name |-> strongest(desires),
                              level |-> strongest_level(desires)])
    /\ UNCHANGED <<desires, desire_nops>>
    /\ UNCHANGED <<tool_results, result_msgs, perm_query, perm_verdict>>
    /\ UNCHANGED <<shellvars, permvars, backendvars, waitvars, cmdvars>>

\* i18n.rs lookup: the English word of an intensity key, for every other
\* language the translation of that key (an opaque value)
Langs == {"En", "Ja"}
t_lang(key, lang) ==
    IF lang = "En"
    THEN CASE key = "intensity_strongly" -> <<"strongly">>
           [] key = "intensity_moderately" -> <<"moderately">>
           [] key = "intensity_slightly" -> <<"slightly">>
           [] OTHER -> <<key>>
    ELSE <<key, lang>>

BAND_STRONGLY == 850
BAND_MODERATELY == 700

\* mutant (C31): the bands are cut with > instead of >=
IntensityKeyStrict(level) ==
    IF level > BAND_STRONGLY THEN "intensity_strongly"
    ELSE IF level > BAND_MODERATELY THEN "intensity_moderately"
    ELSE "intensity_slightly"

\* let intensity_key = if level >= 0.85 { .. } else if level >= 0.7 { .. } else { .. }
IntensityKey(level) ==
    IF level >= BAND_STRONGLY THEN "intensity_strongly"
    ELSE IF level >= BAND_MODERATELY THEN "intensity_moderately"
    ELSE "intensity_slightly"

\* context_string_lang: None when strongest() is None, else the text built
\* from the intensity word and the name
NoContext == [some |-> FALSE, intensity |-> << >>, name |-> ""]
context_string_lang(d, lang) ==
    IF strongest(d) = "" THEN NoContext
    ELSE [some |-> TRUE,
          intensity |-> t_lang(IntensityKey(strongest_level(d)), lang),
          name |-> strongest(d)]

\* desires.context_string_lang(lang): &self
ContextString ==
    /\ desire_op.op # "context_string"
    /\ \E lang \in Langs :
         desire_op' = DesireOp("context_string", lang, 0,
                               context_string_lang(desires, lang))
    /\ UNCHANGED <<desires, desire_nops>>
    /\ UNCHANGED <<tool_results, result_msgs, perm_query, perm_verdict>>
    /\ UNCHANGED <<shellvars, permvars, backendvars, waitvars, cmdvars>>

NextDesire == Decay \/ Boost \/ Satisfy \/ Reset \/ Strongest \/ ContextString

\* the DesireState of a constructed Agent
InitDesire == Init /\ nagents = 1

SpecDesire == InitDesire /\ [][NextDesire]_vars

\* =========================================== a turn waiting for approval
\* The part of the tool loop that asks for approval is not in agent.rs as it
\* stands (run takes neither the flag nor the registry); it is written here
\* as the registry is described: the tool registers a pending request under a
\* fresh id and the turn suspends on the receiver.
PermissionRequest(t) ==
    /\ pc[t] = "tool_exec"
    /\ \E id \in PermIds :
         /\ perm_rx[id] = "none"
         /\ pending_perms' = pending_perms \cup {id}
         /\ perm_rx' = [perm_rx EXCEPT ![id] = "waiting"]
         /\ perm_of' = [perm_of EXCEPT ![t] = id]
    /\ pc' = [pc EXCEPT ![t] = "perm_wait"]
    /\ UNCHANGED <<agent_slot, cancel_flag, nagents, ndispatch, agent, turn_of,
                   should_tick, turns, perm_sends>>
    /\ UNCHANGED <<backendvars, fnvars, cmdvars>>

\* mutant (C29): the wait also ends when the cancellation flag is set
PermissionResumeOrCancel(t) ==
    /\ pc[t] = "perm_wait"
    /\ perm_rx[perm_of[t]] \in {"allowed", "denied"} \/ cancel_flag
    /\ pc' = [pc EXCEPT ![t] = "tool_exec"]
    /\ UNCHANGED <<agent_slot, cancel_flag, nagents, ndispatch, agent, turn_of,
                   should_tick, turns>>
    /\ UNCHANGED <<permvars, backendvars, fnvars, waitvars, cmdvars>>

\* the receiver holds the answer: the turn goes on with the tool call
PermissionResume(t) ==
    /\ pc[t] = "perm_wait"
    /\ perm_rx[perm_of[t]] \in {"allowed", "denied"}
    /\ pc' = [pc EXCEPT ![t] = "tool_exec"]
    /\ UNCHANGED <<agent_slot, cancel_flag, nagents, ndispatch, agent, turn_of,
                   should_tick, turns>>
    /\ UNCHANGED <<permvars, backendvars, fnvars, waitvars, cmdvars>>

\* one foreground caller and the heartbeat, tools that ask for approval, and
\* the commands that answer, cancel or let time pass
NextWait ==
    \/ send_message(1)
    \/ cancel_message
    \/ HeartbeatTick
    \/ HeartbeatSkip
    \/ HeartbeatFire
    \/ TurnStep(ShellCallLists)
    \/ \E t \in Tasks : PermissionRequest(t)
    \/ \E t \in Tasks : PermissionResume(t)
    \/ \E id \in PermIds, allowed \in BOOLEAN : respond_permission(id, allowed)

\* an Agent is configured
InitWait == Init /\ nagents = 1

SpecWait == InitWait /\ [][NextWait]_vars

\* ------------------------------------------------ turns under fair scheduling
\* One foreground caller and the heartbeat, with an Agent configured. The
\* executor runs every task that is ready, the relay task included, and every
\* backend call and tool execution returns: a step of a turn or of its relay
\* that stays possible is eventually taken. Commands of the frontend are under
\* no such obligation.
NextLive ==
    \/ send_message(1)
    \/ HeartbeatTick
    \/ HeartbeatSkip
    \/ HeartbeatFire
    \/ TurnStep(CallLists)

Fairness == WF_vars(TurnStep(CallLists))

SpecLive == InitWait /\ [][NextLive]_vars /\ Fairness

\* ==================================================== claims C21 - C30
\* the positions of the "tool" messages among msgs, in order
RECURSIVE ToolPositions(_, _)
ToolPositions(msgs, p) ==
    IF p > Len(msgs) THEN << >>
    ELSE (IF msgs[p].role = "tool" THEN <<p>> ELSE << >>) \o ToolPositions(msgs, p + 1)

IsImageMsg(m) ==
    /\ m.role = "user"
    /\ m.content.k = "arr"
    /\ Len(m.content.items) = 1
    /\ m.content.items[1].kind = "image_url"

\* C21: make_tool_results on N results returns, for Anthropic and Gemini,
\* exactly one user message that holds the N results in input order (also for
\* N = 0); for the OpenAI-compatible adapters it returns one "tool" message per
\* result, in input order and keyed by the call id, each followed by a user
\* image message exactly when the result has an image, and nothing else.
C21_ToolResultsEncoding ==
    result_msgs.returned =>
      LET msgs == result_msgs.msgs
          N == Len(tool_results)
      IN  CASE backend = "anthropic" ->
                 /\ Len(msgs) = 1 /\ msgs[1].role = "user"
                 /\ Len(msgs[1].content.items) = N
                 /\ \A i \in 1..N :
                      LET b == msgs[1].content.items[i]
                      IN  /\ b.tool_use_id = tool_results[i].call_id
                          /\ Item("text", tool_results[i].text) \in Range(b.content)
            [] backend = "gemini" ->
                 /\ Len(msgs) = 1 /\ msgs[1].role = "user"
                 /\ LET frs == SelectSeq(msgs[1].parts.items,
                                         LAMBDA q : q.kind = "functionResponse")
                    IN  /\ Len(frs) = N
                        /\ \A i \in 1..N :
                             /\ frs[i].name = tool_results[i].call_id
                             /\ frs[i].text = tool_results[i].text
            [] OTHER ->
                 LET pos == ToolPositions(msgs, 1)
                 IN  /\ Len(pos) = N
                     /\ \A i \in 1..N :
                          /\ msgs[pos[i]].tool_call_id = tool_results[i].call_id
                          /\ msgs[pos[i]].content = StrField(tool_results[i].text)
                          /\ tool_results[i].image_b64.some
                               <=> /\ pos[i] < Len(msgs)
                                   /\ IsImageMsg(msgs[pos[i] + 1])
                     /\ \A p \in 1..Len(msgs) :
                          msgs[p].role # "tool"
                            => p > 1 /\ msgs[p - 1].role = "tool" /\ IsImageMsg(msgs[p])

\* the OpenAI adapter has encoded two results of which only the first has an image
C21_Witness ==
    /\ result_msgs.returned /\ backend = "openai"
    /\ Len(tool_results) = 2
    /\ tool_results[1].image_b64.some /\ ~tool_results[2].image_b64.some
    /\ Len(result_msgs.msgs) = 3

\* the rules of the query that match its tool and argument, by position
MatchingRules(q) ==
    {i \in 1..Len(q.rules) : matches(q.rules[i], q.tool, q.arg)}

\* C30: check_permission agrees with the reference: Full gives Allow; Prompt
\* gives Allow for read_file, list_files, grep and glob and NeedsPrompt for
\* every other tool; Custom gives the verdict (Allow or Deny) of the first rule
\* in list order that matches tool and argument, and the Prompt verdict when
\* no rule matches.
C30_CheckPermissionReference ==
    perm_query # NoQuery =>
      LET q == perm_query
          prompt == IF q.tool \in {"read_file", "list_files", "grep", "glob"}
                    THEN "Allow" ELSE "NeedsPrompt"
      IN  perm_verdict =
            CASE q.mode = "Full" -> "Allow"
              [] q.mode = "Prompt" -> prompt
              [] q.mode = "Custom" ->
                   IF MatchingRules(q) = {} THEN prompt
                   ELSE LET first == CHOOSE i \in MatchingRules(q) :
                                        \A j \in MatchingRules(q) : i <= j
                        IN  IF q.rules[first].allow THEN "Allow" ELSE "Deny"

\* Custom mode, two matching rules with opposite verdicts: the first one, a
\* deny rule, has decided
C30_Witness ==
    /\ perm_query.mode = "Custom"
    /\ MatchingRules(perm_query) = {1, 2}
    /\ ~perm_query.rules[1].allow /\ perm_query.rules[2].allow
    /\ perm_verdict = "Deny"

FourDesires == {"observe_room", "look_outside", "browse_curiosity", "miss_companion"}

\* C22: strongest() returns nothing if and only if all four intensities are
\* strictly below 0.6; otherwise it returns the name of a desire whose
\* intensity is at least 0.6 and not lower than any other intensity, together
\* with that intensity.
C22_StrongestAboveThreshold ==
    desire_op.op = "strongest" =>
      LET d == desire_op.before
          r == desire_op.ret
      IN  /\ r.name = "" <=> \A n \in FourDesires : d[n] < (6 * Unit) \div 10
          /\ r.name # "" =>
               /\ r.name \in FourDesires
               /\ d[r.name] >= (6 * Unit) \div 10
               /\ \A n \in FourDesires : d[n] <= d[r.name]
               /\ r.level = d[r.name]

\* strongest() has chosen look_outside over observe_room, both at or above
\* the threshold
C22_Witness ==
    /\ desire_op.op = "strongest"
    /\ desire_op.ret.name = "look_outside"
    /\ desires.observe_room >= THRESHOLD
    /\ desires.observe_room < desires.look_outside

\* C23: after any sequence of decay, boost, satisfy and reset with
\* non-negative amounts and elapsed time, every intensity lies in [0.0, 1.0].
C23_IntensitiesInUnitInterval ==
    \A n \in FourDesires : desires[n] >= 0 /\ desires[n] <= Unit

\* the third operation is a boost whose sum passes 1.0 and is clamped
C23_Witness ==
    /\ desire_nops = 3
    /\ desire_op.op = "boost"
    /\ desire_op.name \in FourDesires
    /\ desire_op.before[desire_op.name] + desire_op.amount > Unit
    /\ desires[desire_op.name] = Unit

\* elapsed seconds x rate, in thousandths: the rates are 1 / (0.167 h),
\* 1 / (1 h), 1 / (2 h) and 1 / (3 h)
Growth(n, elapsed) ==
    CASE n = "observe_room" -> (elapsed * Unit * 10) \div (167 * 36)
      [] n = "look_outside" -> (elapsed * Unit) \div 3600
      [] n = "browse_curiosity" -> (elapsed * Unit) \div (2 * 3600)
      [] n = "miss_companion" -> (elapsed * Unit) \div (3 * 3600)

\* C24: decay never lowers an intensity: each intensity after decay is
\* min(1, value before + elapsed seconds x the desire's rate), which is at
\* least the value before.
C24_DecayGrows ==
    desire_op.op = "decay" =>
      \A n \in FourDesires :
         /\ desires[n] = Min(Unit, desire_op.before[n] + Growth(n, desire_op.amount))
         /\ desires[n] >= desire_op.before[n]

\* ten minutes have passed: look_outside has grown, observe_room is clamped
C24_Witness ==
    /\ desire_op.op = "decay" /\ desire_op.amount = 600
    /\ desires.look_outside > desire_op.before.look_outside
    /\ desire_op.before.observe_room < Unit /\ desires.observe_room = Unit

\* C25: boost and satisfy with a name that is none of the four desires leave
\* all four intensities as they were; with a known name they change no other
\* desire's intensity.
C25_UnknownNameIsNoop ==
    desire_op.op \in {"boost", "satisfy"} =>
      IF desire_op.name \in FourDesires
      THEN \A n \in FourDesires \ {desire_op.name} : desires[n] = desire_op.before[n]
      ELSE desires = desire_op.before

\* satisfy("sleep", 0.4) was called on a state that differs from the seed
C25_Witness ==
    /\ desire_op.op = "satisfy" /\ desire_op.name = "sleep" /\ desire_op.amount = 400
    /\ desires # DesireDefault
    /\ desires = desire_op.before

\* C27: the desire noted at turn start is the one strongest after the turn's
\* decay (none when all are below 0.6); when the turn ends with EndTurn that
\* desire is lowered by 0.4, not below 0, and no other intensity changes; no
\* other step of a turn, the iteration cap and a backend error included,
\* lowers any intensity.
C27_SatisfyOnEndTurnOnly ==
    [][\A t \in Tasks :
          (pc[t] \in RunPcs) =>
            LET k == turn_of[t]
                d == agent[t].desires
                d2 == agent'[t].desires
                end_turn == pc[t] = "stream" /\ pc'[t] = "send_done"
            IN  /\ (pc[t] = "begin" /\ pc'[t] = "round") =>
                     LET a2 == turns'[k].active_desire
                     IN  /\ a2 = "" <=> \A n \in FourDesires : d2[n] < (6 * Unit) \div 10
                         /\ a2 # "" => /\ d2[a2] >= (6 * Unit) \div 10
                                       /\ \A n \in FourDesires : d2[n] <= d2[a2]
                /\ end_turn =>
                     \A n \in FourDesires :
                        d2[n] = IF n = turns[k].active_desire
                                THEN Max(0, d[n] - (4 * Unit) \div 10)
                                ELSE d[n]
                /\ (~end_turn /\ agent'[t].id = agent[t].id) =>
                     \A n \in FourDesires : d2[n] >= d[n]
                /\ (pc[t] = "stream" /\ pc'[t] = "idle") => agent_slot' = agent_slot]_vars

\* ten minutes after the last turn observe_room was the strongest desire; the
\* turn has ended with EndTurn and observe_room is down to 0.6
C27_Witness ==
    \E t \in Tasks :
       /\ pc[t] = "send_done"
       /\ turns[turn_of[t]].stop = "EndTurn"
       /\ turns[turn_of[t]].active_desire = "observe_room"
       /\ agent[t].desires.observe_room = Unit - SATISFY_AMOUNT

\* C28: the step that announces a tool call named "see" raises observe_room by
\* 0.15, one named "look" raises look_outside by 0.1, both capped at 1.0, and
\* a call of any other name changes no intensity; the boost is made once, on
\* the way to the execution of the call, and the execution, failed or not,
\* changes no intensity.
C28_BoostPerToolCall ==
    [][\A t \in Tasks :
          /\ (pc[t] = "tool_action" /\ pc'[t] = "tool_exec") =>
               LET name == CurCall(turn_of[t]).name
                   d == agent[t].desires
               IN  \A n \in FourDesires :
                      agent'[t].desires[n] =
                        IF name = "see" /\ n = "observe_room"
                        THEN Min(Unit, d[n] + (15 * Unit) \div 100)
                        ELSE IF name = "look" /\ n = "look_outside"
                        THEN Min(Unit, d[n] + Unit \div 10)
                        ELSE d[n]
          /\ (pc[t] # "tool_exec" /\ pc'[t] = "tool_exec") => pc[t] = "tool_action"
          /\ pc[t] = "tool_exec" => agent'[t].desires = agent[t].desires]_vars

\* a "see" call failed after observe_room had been raised from 0.4 to 0.55,
\* and a "look" call raised look_outside from 0.2 to 0.3
C28_Witness ==
    \E t \in Tasks :
       /\ pc[t] \in RunPcs
       /\ turns[turn_of[t]].last_exec.failed
       /\ turns[turn_of[t]].active_desire = ""
       /\ agent[t].desires.observe_room = DesireDefault.observe_room + BOOST_SEE
       /\ agent[t].desires.look_outside = DesireDefault.look_outside + BOOST_LOOK

\* the session of the configured Agent: in the slot, or held by the turn that
\* took it
HeldBy == {t \in Tasks : agent[t].id # 0}

Cleared(a) ==
    /\ a.history = << >>
    /\ a.desires = DesireDefault
    /\ ~a.world_model

\* C26: whenever an Agent is configured, after clear_history returns the
\* session's history is empty, its intensities are the seed values and the
\* world-model summary is unset, also when a turn is in flight and holds the
\* session.
C26_ClearHistoryClearsSession ==
    [][(clear_calls' # clear_calls /\ nagents > 0) =>
          /\ agent_slot.id # 0 => Cleared(agent_slot')
          /\ \A t \in HeldBy : Cleared(agent'[t])]_vars

\* C29: a turn suspended on a pending permission request goes on only after
\* respond_permission was called with the id of that request; as long as it
\* was not, no step (a heartbeat tick, cancel_message, an answer to another
\* request) releases the turn, and it keeps the Agent it took.
C29_WaitEndsOnlyByRespond ==
    [][\A t \in Tasks :
          pc[t] = "perm_wait" =>
            /\ pc'[t] # "perm_wait" => perm_sends[perm_of[t]] >= 1
            /\ perm_sends'[perm_of[t]] = 0 =>
                 /\ pc'[t] = "perm_wait"
                 /\ agent[t].id # 0
                 /\ agent'[t] = agent[t]
                 /\ perm_rx'[perm_of[t]] = "waiting"]_vars

\* the turn was suspended, the flag was set meanwhile, and the turn is back
\* at the tool call after its request was denied
C29_Witness ==
    \E t \in Tasks :
       /\ pc[t] = "tool_exec"
       /\ perm_of[t] # 0
       /\ perm_rx[perm_of[t]] = "denied"
       /\ perm_sends[perm_of[t]] = 1
       /\ cancel_flag

\* ==================================================== claims C31 - C40
\* the desires at the maximum intensity
AtMaximum(d) == {n \in FourDesires : \A m \in FourDesires : d[m] <= d[n]}

\* C31: the context string is absent if and only if strongest() returns
\* nothing; otherwise it names the strongest desire with the band "strongly"
\* when its level is at least 0.85, "moderately" when it is at least 0.7 and
\* below 0.85, and "slightly" when it is at least 0.6 and below 0.7 (in a
\* language other than English, with the translation of that band).
C31_ContextStringBands ==
    desire_op.op = "context_string" =>
      LET d == desire_op.before
          r == desire_op.ret
          lang == desire_op.name
          top == CHOOSE n \in AtMaximum(d) : TRUE
          level == d[top]
          band == IF level >= (85 * Unit) \div 100 THEN "strongly"
                  ELSE IF level >= (7 * Unit) \div 10 THEN "moderately"
                  ELSE "slightly"
      IN  /\ ~r.some <=> \A n \in FourDesires : d[n] < (6 * Unit) \div 10
          /\ r.some =>
               /\ r.name \in AtMaximum(d)
               /\ lang = "En" => r.intensity = <<band>>
               /\ lang # "En" => r.intensity = <<"intensity_" \o band, lang>>

\* the English context string says "strongly" at exactly 0.85
C31_Witness ==
    /\ desire_op.op = "context_string" /\ desire_op.name = "En"
    /\ desire_op.ret.some
    /\ desire_op.ret.intensity = <<"strongly">>
    /\ desires[desire_op.ret.name] = (85 * Unit) \div 100

\* C40: when several desires share the maximum intensity at or above the
\* threshold, strongest() returns the one declared last among them in the
\* order observe_room, look_outside, browse_curiosity, miss_companion.
C40_TieBreakLastDeclared ==
    desire_op.op = "strongest" =>
      LET d == desire_op.before
          top == AtMaximum(d)
          order == <<"observe_room", "look_outside", "browse_curiosity", "miss_companion">>
          last == CHOOSE i \in 1..4 :
                     order[i] \in top /\ \A j \in 1..4 : order[j] \in top => j <= i
      IN  (\E n \in top : d[n] >= (6 * Unit) \div 10) => desire_op.ret.name = order[last]

\* observe_room and look_outside are both at 1.0, above the other two, and
\* strongest() has returned look_outside
C40_Witness ==
    /\ desire_op.op = "strongest"
    /\ AtMaximum(desires) = {"observe_room", "look_outside"}
    /\ desires.observe_room = Unit
    /\ desire_op.ret.name = "look_outside"

\* C32: during a turn the history only grows: the user message is appended
\* first, each round appends exactly one assistant record and, at its end, the
\* round's tool-result messages; no other step touches the history, what was
\* in it stays as it was, and each backend call is given the whole history
\* built so far.
C32_HistoryAppendOnly ==
    [][\A t \in Tasks :
          (pc[t] \in RunPcs /\ agent'[t].id = agent[t].id) =>
            LET h == agent[t].history
                h2 == agent'[t].history
                added == SubSeq(h2, Len(h) + 1, Len(h2))
            IN  /\ Len(h2) >= Len(h)
                /\ SubSeq(h2, 1, Len(h)) = h
                /\ added =
                     IF pc[t] = "begin" /\ pc'[t] = "round" THEN <<"user">>
                     ELSE IF pc[t] = "stream" /\ pc'[t] # "stream" THEN <<"assistant">>
                     ELSE IF pc[t] = "tool_exec" /\ pc'[t] = "round" THEN added
                     ELSE << >>
                /\ \A i \in 1..Len(added) :
                      (pc[t] = "tool_exec") => added[i] = "tool"
                /\ (pc[t] = "round" /\ pc'[t] = "stream")
                     => turns'[turn_of[t]].history_snapshot = h]_vars

\* the second backend call of a turn is given the user message, the first
\* assistant record and the two tool results of the first round
C32_Witness ==
    \E t \in Tasks :
       /\ pc[t] = "stream"
       /\ turns[turn_of[t]].iter = 1
       /\ turns[turn_of[t]].history_snapshot = <<"user", "assistant", "tool", "tool">>
       /\ agent[t].history = turns[turn_of[t]].history_snapshot

\* C33: when a backend result has stop_reason EndTurn the round sends no
\* Action event and executes no tool, even if the result lists tool calls:
\* the step that takes the result goes straight to the Done send and writes
\* nothing to the channel, and the next step of the turn sends Done and ends
\* Agent::run.
C33_EndTurnRunsNoTool ==
    [][\A t \in Tasks :
          LET k == turn_of[t] IN
          /\ (pc[t] = "stream" /\ pc'[t] # "stream" /\ turns'[k].stop = "EndTurn")
               => /\ pc'[t] = "send_done"
                  /\ turns'[k].chan = turns[k].chan
                  /\ turns'[k].emitted = turns[k].emitted
                  /\ turns'[k].last_action = 0
                  /\ turns'[k].last_exec = NoExec
                  /\ turns'[k].results = << >>
          /\ (pc[t] = "send_done" /\ turns[k].stop = "EndTurn" /\ pc'[t] # pc[t])
               => /\ pc'[t] = "await_relay"
                  /\ turns'[k].chan = SendTo(k, Ev("done", ""))
                  /\ turns'[k].emitted = Append(turns[k].emitted, "done")
                  /\ turns'[k].last_action = 0
                  /\ turns'[k].last_exec = NoExec
                  /\ agent'[t] = agent[t]]_vars

\* a result with stop_reason EndTurn that lists two tool calls has been taken
C33_Witness ==
    \E t \in Tasks :
       /\ pc[t] = "send_done"
       /\ turns[turn_of[t]].stop = "EndTurn"
       /\ Len(turns[turn_of[t]].calls) = 2
       /\ turns[turn_of[t]].last_action = 0

\* C34: in a ToolUse round with tool calls c1..cn the tools are executed one
\* at a time in that order (the k-th Action event and the k-th execution are
\* for call ck, after k-1 results have been collected), and the results given
\* to the adapter at the round's end are exactly n results in the same order,
\* result k carrying the id of call ck.
C34_ToolResultsInCallOrder ==
    [][\A t \in Tasks :
          LET k == turn_of[t]
              calls == turns[k].calls
              done == turns[k].results
              n == Len(calls)
          IN
          /\ (pc[t] \in {"tool_action", "tool_exec"})
               => /\ Len(done) < n
                  /\ \A i \in 1..Len(done) : done[i].call_id = calls[i].id
          /\ (pc[t] = "tool_action" /\ pc'[t] = "tool_exec")
               => /\ turns'[k].last_action = calls[Len(done) + 1].id
                  /\ turns'[k].results = done
          /\ (pc[t] = "tool_exec" /\ pc'[t] # "tool_exec")
               => /\ turns[k].last_action = calls[Len(done) + 1].id
                  /\ turns'[k].last_exec.call_id = calls[Len(done) + 1].id
                  /\ pc'[t] = IF Len(done) + 1 = n THEN "round" ELSE "tool_action"
                  /\ (pc'[t] = "tool_action")
                       => /\ Len(turns'[k].results) = Len(done) + 1
                          /\ SubSeq(turns'[k].results, 1, Len(done)) = done
                          /\ turns'[k].results[Len(done) + 1].call_id
                               = calls[Len(done) + 1].id
                  /\ (pc'[t] = "round")
                       => /\ Len(turns'[k].handed) = n
                          /\ \A i \in 1..n : turns'[k].handed[i].call_id = calls[i].id
                          /\ SubSeq(turns'[k].handed, 1, n - 1) = done]_vars

\* a round with two tool calls has ended and its two results were given to
\* the adapter
C34_Witness ==
    \E t \in Tasks :
       /\ pc[t] = "round"
       /\ Len(turns[turn_of[t]].handed) = 2
       /\ turns[turn_of[t]].handed[1].call_id # turns[turn_of[t]].handed[2].call_id
       /\ Len(agent[t].history) >= 4

\* no task is between its dispatch and the end of its turn
NoTurnRunning == \A t \in Tasks : pc[t] \in {"idle", "hb_if"}

\* C35: every dispatch, by send_message or by the heartbeat, stores false in
\* the cancellation flag in the step that dispatches, before the Agent is
\* taken and before anything of the turn has happened; a flag set while no
\* turn was running is therefore never still set when the next turn is
\* dispatched.
C35_DispatchClearsCancelFlag ==
    [][\A t \in Tasks :
          (pc[t] \in {"idle", "hb_if"} /\ pc'[t] = "take")
            => /\ cancel_flag' = FALSE
               /\ turn_of'[t] # 0
               /\ ~turns'[turn_of'[t]].started
               /\ agent'[t] = None
               /\ agent_slot' = agent_slot]_vars

\* a cancel request was made while no turn was running, and the heartbeat has
\* decided to dispatch
C35_Witness ==
    /\ NoTurnRunning
    /\ cancel_flag
    /\ pc[hb] = "hb_if"
    /\ should_tick
    /\ ndispatch < MaxDispatch

\* C36: once the cancellation flag is set while a turn is in flight it stays
\* set until that turn has ended: no step taken while the turn is still
\* running (a second send_message, a heartbeat tick) resets it.
C36_CancelFlagStaysSet ==
    [][\A t \in Tasks :
          (pc[t] \in InTurnPcs /\ pc'[t] \in InTurnPcs /\ cancel_flag)
            => cancel_flag']_vars

\* C37: after save_config has installed a new Agent the slot holds that Agent
\* or is empty until the next save_config; the end of a turn that started before
\* the save never puts the older Agent in its place. Agents are numbered in
\* the order save_config creates them, so an Agent in the slot is the newest.
C37_SlotHoldsNewestAgent ==
    agent_slot.id # 0 => agent_slot.id = nagents

\* C38: a heartbeat tick that does not dispatch a turn (the check of the
\* slot, then the skip) leaves the Agent in the slot with its history and its
\* desire intensities, the Agents held by running turns, the cancellation flag
\* and the permission registry as they were; the check reads the stored
\* intensities and does not let them grow first.
C38_IdleTickChangesNothing ==
    [][/\ (pc[hb] = "idle" /\ pc'[hb] = "hb_if")
          => /\ agent_slot' = agent_slot
             /\ agent' = agent
             /\ cancel_flag' = cancel_flag
             /\ pending_perms' = pending_perms
             /\ turns' = turns
             /\ should_tick' = (/\ agent_slot.id # 0
                                /\ \E n \in FourDesires :
                                      agent_slot.desires[n] >= THRESHOLD)
       /\ (pc[hb] = "hb_if" /\ pc'[hb] = "idle")
          => /\ ~should_tick
             /\ agent_slot' = agent_slot
             /\ agent' = agent
             /\ cancel_flag' = cancel_flag
             /\ pending_perms' = pending_perms
             /\ turns' = turns
             /\ ndispatch' = ndispatch]_vars

\* the tick found an Agent in the slot that has been through a turn, with no
\* desire at the threshold, while a cancel request was pending
C38_Witness ==
    /\ pc[hb] = "hb_if"
    /\ ~should_tick
    /\ cancel_flag
    /\ agent_slot.id # 0
    /\ agent_slot.history # << >>
    /\ agent_slot.desires # DesireDefault

\* every turn that has taken the Agent comes to its end (with the relay task
\* finished, or its channel closed)
TurnTerminates ==
    \A t \in Tasks : (pc[t] \in InTurnPcs) ~> (pc[t] = "idle")

\* C39: when every backend call and every tool execution returns, each
\* dispatched turn terminates, and then the Agent is back in the slot, so that
\* a new dispatch is accepted.
C39_TurnEndsWithAgentBack ==
    \A t \in Tasks :
       (pc[t] \in InTurnPcs) ~> (pc[t] = "idle" /\ agent_slot.id # 0)

====
